---- MODULE Spec2Model ----
(***************************************************************************)
(* Model of the capture pipeline of reachy_mini: GstWebRTC in              *)
(* src/reachy_mini/media/webrtc_daemon.py (device resolver, graph          *)
(* construction, lifecycle calls, bus handler, frame appsink).             *)
(***************************************************************************)
EXTENDS Integers, Sequences, FiniteSets, TLC

VARIABLES
    devices,            \* what Gst.DeviceMonitor.get_devices() enumerates
    resolved,           \* value returned by _get_video_device()
    monitor,            \* the transient DeviceMonitor: "idle" | "started" | "stopped"
    rpicam_installed,   \* shutil.which("rpicam-vid") finds the binary
    missing,            \* element factories Gst.ElementFactory.make cannot create
    ignores_term,       \* the rpicam-vid process does not exit on SIGTERM
    phase,              \* "none" | "built" | "failed": outcome of __init__
    raised,             \* exception raised by the last call ("none" if it returned)
    cam_path,           \* local cam_path of __init__
    camera_specs,       \* self.camera_specs
    pipeline_sender,    \* state of self._pipeline_sender ("absent" before creation)
    pipeline_receiver,  \* state of self._pipeline_receiver
    watch_sender,       \* bus watch on self._bus_sender still attached
    watch_receiver,     \* bus watch on self._bus_receiver still attached
    rpicam_proc,        \* self._rpicam_proc: "None" | "Popen"
    proc,               \* the OS process: "absent" | "running" | "exited"
    signals,            \* signals sent to the process by the last call
    appsink,            \* self._appsink: "None" | "frame_appsink"
    sinkq,              \* buffers queued in the appsink
    produced,           \* number of frames the graph has delivered to the appsink
    lastOp,             \* the call or event that produced this state
    lastRead,           \* value returned by the last read_frame() (0 = None)
    last_msg,           \* type of the last bus message handled
    playing_fault,      \* the last handled message was a fault delivered in PLAYING
    stopped,            \* stop() has returned at least once
    rpc,                \* per reader thread: position inside read_frame()
    rstart,             \* per reader thread: frames produced when the call began
    rlatest,            \* per reader thread: frames produced at the pull instant
    rgot,               \* per reader thread: frame returned (0 = None)
    rwait,              \* per reader thread: seconds spent waiting in try_pull_sample
    video_links,        \* links made between the video elements of the sender pipeline
    spawns,             \* number of subprocess.Popen calls the instance has made
    teed,               \* number of buffers the tee has pushed into its branches
    decodeq,            \* buffers in the queue of the frame-sink branch
    webrtcq,            \* buffers in queue_webrtc
    tcpq,               \* buffers in queue_tcp
    tcp_sent,           \* last buffer tcpserversink has rendered (0 = none)
    client,             \* recording client: "absent" | "connected"
    client_first,       \* first buffer sent on the current connection (0 = none yet)
    client_pos,         \* last buffer the client has received on this connection
    connects,           \* connections the recording client has made so far
    webrtc_last,        \* last buffer webrtcsink has taken from queue_webrtc (0 = none)
    socket_exists,      \* the camera socket of the daemon exists on disk
    camera_reader,      \* app.state._camera_reader: "None" | "GStreamerCamera"
    resp_status,        \* HTTP status of the last /camera/frame response (0 = none yet)
    resp_image,         \* the last /camera/frame response carries a JPEG image
    req_quality,        \* quality parameter of the last /camera request
    used_quality,       \* quality handed to cv2.imencode for that request (0 = none)
    reads,              \* camera.read() calls made while serving the last /camera/frame request
    stream,             \* MJPEG generator: "none" | "open" | "running" | "aborted"
    stream_status,      \* HTTP status the /camera/stream response started with (0 = none)
    req_fps,            \* fps parameter of the stream request
    stream_fps,         \* fps handed to the generator
    parts,              \* multipart parts the generator has yielded
    sleeps,             \* asyncio.sleep(period) calls the generator has completed
    status_response,    \* body of the last /camera/status response
    frame_read,         \* what the last camera.read() of a handler returned ("" = none made)
    stream_req_quality, \* quality parameter of the stream request
    stream_quality,     \* quality handed to the generator (0 = none)
    abuf,               \* the sample held by the appsink: its buffer's size and contents
    live,               \* current contents of the memory of the buffer last pulled (0 = none)
    rframe,             \* what the last read_frame() handed to its caller
    rsnap,              \* contents of that frame at the moment it was returned
    pcs,                \* per RTCPeerConnection: connectionState, whether close() has run, handler runs scheduled
    peer_connections,   \* the module-level registry set
    cleanup,            \* cleanup_peer_connections: "idle" | "closing" | "done"
    closing,            \* the connections whose close() the cleanup has gathered
    track_next,         \* timestamps CameraTrack.next_timestamp() has handed out
    video_frame,        \* what the last CameraTrack.recv() returned or raised
    timers,             \* GLib timeouts armed for _dump_latency and not yet run
    call,               \* per caller thread: the lifecycle call it is in and its position
    last_bus,           \* the bus whose watch handled the last message
    getcam,             \* per thread in _get_camera: position, outcome of its last call, warm-up reads it made
    camera_lock,        \* holder of _camera_lock (0 = free)
    cameras,            \* GStreamerCamera objects created and opened so far
    yielded,            \* last pass of the MJPEG loop: what imencode returned and the chunk handed to the response
    inst                \* per instance of a second-instance scenario: its outcome

vars ==
    << devices, resolved, monitor, rpicam_installed, missing, ignores_term,
       phase, raised, cam_path, camera_specs, pipeline_sender,
       pipeline_receiver, watch_sender, watch_receiver, rpicam_proc, proc,
       signals, appsink, sinkq, produced, lastOp, lastRead, last_msg,
       playing_fault, stopped, rpc, rstart, rlatest, rgot, rwait,
       video_links, spawns, teed, decodeq, webrtcq, tcpq, tcp_sent, client,
       client_first, client_pos, connects, webrtc_last, inst,
       socket_exists, camera_reader, resp_status, resp_image, req_quality, used_quality, reads, stream, stream_status, req_fps, stream_fps, parts, sleeps, status_response,
       frame_read, stream_req_quality, stream_quality,
       abuf, live, rframe, rsnap,
       pcs, peer_connections, cleanup, closing,
       track_next, video_frame,
       timers,
       call,
       last_bus,
       getcam, camera_lock, cameras,
       yielded >>

(***************************************************************************)
(* Bounds                                                                  *)
(***************************************************************************)
MaxDevices == 2
MaxCtorDevices == 1
MaxMissing == 1
MaxFrames == 3
NumReaders == 2
MaxWait == 2
QueueCap == 1
MaxConnects == 2
NumInstances == 2
MaxOver == 2
MaxParts == 2
MaxDim == 2
NumPeers == 2
MaxPending == 2
MaxRecv == 3
MaxTimers == 2
NumThreads == 2

(***************************************************************************)
(* Device resolver                                                         *)
(***************************************************************************)
cam_names == << "Reachy", "Arducam_12MP", "imx708" >>

NoPath == "nopath"

\* A device: the markers its display name contains, and its api.v4l2.path
\* property (NoPath when the properties have no such field).
Devices ==
    [ name : SUBSET { cam_names[k] : k \in 1..Len(cam_names) },
      path : { "/dev/video0", "/dev/video1", NoPath } ]

RECURSIVE SeqsUpTo(_, _)
SeqsUpTo(S, n) ==
    IF n = 0 THEN { << >> }
    ELSE LET shorter == SeqsUpTo(S, n - 1)
         IN  shorter \cup { Append(s, x) : s \in { t \in shorter : Len(t) = n - 1 }, x \in S }

NotFound ==
    [ found |-> FALSE, cam_name |-> "", index |-> 0,
      cam_path |-> "", camera_specs |-> "None" ]

\* inner loop "for device in devices" for one cam_name, from position i
RECURSIVE ScanDevices(_, _, _)
ScanDevices(cam_name, devs, i) ==
    IF i > Len(devs) THEN NotFound
    ELSE IF cam_name \in devs[i].name
         THEN IF devs[i].path # NoPath
              THEN [ found |-> TRUE, cam_name |-> cam_name, index |-> i,
                     cam_path |-> devs[i].path,
                     camera_specs |-> IF cam_name = "Arducam_12MP"
                                      THEN "ArducamSpecs"
                                      ELSE "ReachyMiniLiteCamSpecs" ]
              ELSE IF cam_name = "imx708"
                   THEN [ found |-> TRUE, cam_name |-> cam_name, index |-> i,
                          cam_path |-> cam_name,
                          camera_specs |-> "ReachyMiniWirelessCamSpecs" ]
                   ELSE ScanDevices(cam_name, devs, i + 1)
         ELSE ScanDevices(cam_name, devs, i + 1)

\* outer loop "for cam_name in cam_names", from position k
RECURSIVE ScanNames(_, _)
ScanNames(devs, k) ==
    IF k > Len(cam_names) THEN NotFound
    ELSE LET r == ScanDevices(cam_names[k], devs, 1)
         IN  IF r.found THEN r ELSE ScanNames(devs, k + 1)

\* mutant: the scan walks the devices in the outer loop and the names in the
\* inner one, so the first enumerated device wins whatever its class
RECURSIVE ScanDevicesFirst(_, _)
ScanDevicesFirst(devs, i) ==
    IF i > Len(devs) THEN NotFound
    ELSE LET one == ScanNames(<< devs[i] >>, 1)
         IN  IF one.found THEN [ one EXCEPT !.index = i ]
             ELSE ScanDevicesFirst(devs, i + 1)

GetVideoDeviceDeviceMajor(devs) == ScanDevicesFirst(devs, 1)

\* mutant: a scan that finds nothing falls back to the default camera specs
GetVideoDeviceDefaultSpecs(devs) ==
    LET r == ScanNames(devs, 1)
    IN  IF r.found THEN r
        ELSE [ r EXCEPT !.camera_specs = "ReachyMiniLiteCamSpecs" ]

\* _get_video_device; cam_name and index record the match that returned
GetVideoDevice(devs) == ScanNames(devs, 1)

\* mutant: the return for an imx708 device without a path leaves the
\* monitor running
MonitorAtReturnLeak(r) ==
    IF r.found /\ r.cam_path # r.cam_name THEN "stopped"
    ELSE IF r.found THEN "started"
         ELSE "stopped"

\* the DeviceMonitor when _get_video_device returns r: monitor.stop() comes
\* before the return of a match with a V4L2 path, before the return of an
\* imx708 match without one, and before the return of no match
MonitorAtReturn(r) ==
    IF r.found /\ r.cam_path # r.cam_name THEN "stopped"
    ELSE IF r.found THEN "stopped"
         ELSE "stopped"

(***************************************************************************)
(* The rpicam-vid subprocess                                               *)
(***************************************************************************)
Raise(s, exc) == [ s EXCEPT !.raised = exc ]

\* mutant: the wait timeout is not caught, so an unresponsive process is
\* never killed and TimeoutExpired reaches the caller
CleanupRpicamNoKill(s, ignores) ==
    IF s.rpicam_proc # "None" /\ s.proc = "running"
    THEN IF ignores
         THEN [ s EXCEPT !.signals = << "SIGTERM" >>, !.raised = "TimeoutExpired" ]
         ELSE [ s EXCEPT !.signals = << "SIGTERM" >>, !.proc = "exited",
                         !.rpicam_proc = "None" ]
    ELSE s

\* mutant: the handle is polled without the "is not None" test
CleanupRpicamNoNoneTest(s, ignores) ==
    IF s.rpicam_proc = "None" THEN Raise(s, "AttributeError")
    ELSE IF s.proc = "running"
         THEN [ s EXCEPT !.signals = IF ignores THEN << "SIGTERM", "SIGKILL" >>
                                     ELSE << "SIGTERM" >>,
                         !.proc = "exited", !.rpicam_proc = "None" ]
         ELSE s

\* mutant: the handle is tested for None only, not polled
CleanupRpicamNoPoll(s, ignores) ==
    IF s.rpicam_proc # "None"
    THEN [ s EXCEPT !.signals = IF ignores THEN << "SIGTERM", "SIGKILL" >>
                                ELSE << "SIGTERM" >>,
                    !.proc = "exited", !.rpicam_proc = "None" ]
    ELSE s

\* _cleanup_rpicam: terminate(), wait(timeout=3), on TimeoutExpired kill()
\* and wait(); the handle is reset only when the process was still running
CleanupRpicam(s, ignores) ==
    IF s.rpicam_proc # "None" /\ s.proc = "running"
    THEN [ s EXCEPT !.signals = IF ignores THEN << "SIGTERM", "SIGKILL" >>
                                ELSE << "SIGTERM" >>,
                    !.proc = "exited", !.rpicam_proc = "None" ]
    ELSE s

\* subprocess.Popen(cmd): no process exists when the binary cannot be found
Popen(s, installed) ==
    IF installed THEN [ s EXCEPT !.rpicam_proc = "Popen", !.proc = "running",
                                 !.spawns = s.spawns + 1 ]
    ELSE Raise(s, "FileNotFoundError")

(***************************************************************************)
(* Graph construction                                                      *)
(***************************************************************************)
Factories ==
    { "webrtcsink", "fdsrc", "h264parse", "capsfilter", "tee", "queue",
      "mpegtsmux", "tcpserversink", "avdec_h264", "videoconvert", "appsink",
      "libcamerasrc", "v4l2h264enc", "alsasrc", "udpsrc", "rtpjitterbuffer",
      "rtpopusdepay", "opusdec", "audioconvert", "audioresample", "alsasink" }

\* Elements in creation order. use = "deref": a property is set on the
\* element right after make(), so a None raises AttributeError there;
\* "check": an explicit "if not elem: raise RuntimeError"; "none": the
\* element is first looked at by the all(...) test.
E(f, u) == [ factory |-> f, use |-> u ]

RpicamElements ==
    << E("fdsrc", "deref"), E("h264parse", "deref"), E("capsfilter", "deref"),
       E("tee", "none"), E("queue", "deref"), E("queue", "none"),
       E("h264parse", "none"), E("mpegtsmux", "none"),
       E("tcpserversink", "deref"), E("queue", "none"),
       E("avdec_h264", "check"), E("videoconvert", "none"),
       E("appsink", "deref") >>

V4l2Elements ==
    << E("libcamerasrc", "none"), E("capsfilter", "deref"), E("tee", "none"),
       E("appsink", "deref"), E("queue", "none"), E("videoconvert", "none"),
       E("queue", "none"), E("v4l2h264enc", "deref"), E("capsfilter", "deref"),
       E("tee", "none"), E("queue", "deref"), E("queue", "none"),
       E("h264parse", "none"), E("mpegtsmux", "none"),
       E("tcpserversink", "deref") >>

\* link(a, b) calls, as pairs << upstream, downstream >>
Chain(names) == { << names[i], names[i + 1] >> : i \in 1..(Len(names) - 1) }

\* mutant: the recording branch is linked ahead of the tee
RpicamLinksTcpBypassesTee ==
    Chain(<< "fdsrc", "h264parse", "capsfilter_h264", "h264_tee" >>)
    \cup Chain(<< "h264_tee", "queue_webrtc", "webrtcsink" >>)
    \cup Chain(<< "capsfilter_h264", "queue_tcp", "h264parse_tcp", "mpegtsmux", "tcpserversink" >>)
    \cup Chain(<< "h264_tee", "queue_decode", "avdec_h264", "videoconvert", "frame_appsink" >>)

RpicamLinks ==
    Chain(<< "fdsrc", "h264parse", "capsfilter_h264", "h264_tee" >>)
    \cup Chain(<< "h264_tee", "queue_webrtc", "webrtcsink" >>)
    \cup Chain(<< "h264_tee", "queue_tcp", "h264parse_tcp", "mpegtsmux", "tcpserversink" >>)
    \cup Chain(<< "h264_tee", "queue_decode", "avdec_h264", "videoconvert", "frame_appsink" >>)

V4l2Links ==
    Chain(<< "camerasrc", "capsfilter", "tee" >>)
    \cup Chain(<< "tee", "queue_appsink", "videoconvert_appsink", "frame_appsink" >>)
    \cup Chain(<< "tee", "queue_encoder", "v4l2h264enc", "capsfilter_h264", "h264_tee" >>)
    \cup Chain(<< "h264_tee", "queue_webrtc", "webrtcsink" >>)
    \cup Chain(<< "h264_tee", "queue_tcp", "h264parse", "mpegtsmux", "tcpserversink" >>)

\* position of the appsink in each list: self._appsink is assigned once the
\* code has passed it
RpicamAppsinkAt == 13
V4l2AppsinkAt == 4

\* first element whose factory is missing and which the code touches before
\* the all(...) test; 0 when there is none
RECURSIVE FirstFailure(_, _, _)
FirstFailure(elems, miss, i) ==
    IF i > Len(elems) THEN 0
    ELSE IF elems[i].factory \in miss /\ elems[i].use # "none" THEN i
         ELSE FirstFailure(elems, miss, i + 1)

AllCreated(elems, miss) == \A i \in 1..Len(elems) : elems[i].factory \notin miss

ConfigureWebrtc(s, miss) ==
    IF s.raised # "none" THEN s
    ELSE IF "webrtcsink" \in miss THEN Raise(s, "RuntimeError")
         ELSE s

\* the part of _configure_video_rpicam after the Popen call
BuildRpicamGraph(s, miss, ignores) ==
    IF s.raised # "none" THEN s
    ELSE LET k == FirstFailure(RpicamElements, miss, 1)
             sunk == [ s EXCEPT !.appsink = "frame_appsink" ]
         IN  IF k # 0
             THEN Raise(IF k > RpicamAppsinkAt THEN sunk ELSE s,
                        IF RpicamElements[k].use = "check" THEN "RuntimeError"
                        ELSE "AttributeError")
             ELSE IF ~AllCreated(RpicamElements, miss)
                  THEN Raise(CleanupRpicam(sunk, ignores), "RuntimeError")
                  ELSE [ sunk EXCEPT !.video_links = RpicamLinks ]

\* mutant: the shutil.which test is left out
ConfigureVideoRpicamNoWhich(s, installed, miss, ignores) ==
    BuildRpicamGraph(Popen(s, installed), miss, ignores)

ConfigureVideoRpicam(s, installed, miss, ignores) ==
    IF ~installed THEN Raise(s, "RuntimeError")
    ELSE BuildRpicamGraph(Popen(s, installed), miss, ignores)

ConfigureVideoV4l2(s, miss) ==
    LET k == FirstFailure(V4l2Elements, miss, 1)
        sunk == [ s EXCEPT !.appsink = "frame_appsink" ]
    IN  IF k # 0
        THEN Raise(IF k > V4l2AppsinkAt THEN sunk ELSE s, "AttributeError")
        ELSE IF ~AllCreated(V4l2Elements, miss) THEN Raise(sunk, "RuntimeError")
             ELSE [ sunk EXCEPT !.video_links = V4l2Links ]

ConfigureVideo(s, path, installed, miss, ignores) ==
    IF s.raised # "none" THEN s
    ELSE IF path = "imx708" THEN ConfigureVideoRpicam(s, installed, miss, ignores)
         ELSE ConfigureVideoV4l2(s, miss)

ConfigureAudio(s, miss) ==
    IF s.raised # "none" THEN s
    ELSE IF "alsasrc" \in miss THEN Raise(s, "AttributeError")
         ELSE s

ReceiverDeref == { "udpsrc", "capsfilter", "rtpjitterbuffer", "alsasink" }

ReceiverAdded == { "rtpopusdepay", "opusdec", "queue", "audioconvert", "audioresample" }

ConfigureReceiver(s, miss) ==
    IF s.raised # "none" THEN s
    ELSE IF ReceiverDeref \cap miss # {} THEN Raise(s, "AttributeError")
         ELSE IF ReceiverAdded \cap miss # {} THEN Raise(s, "TypeError")
              ELSE s

\* the fields __init__ sets before it resolves the device
NewInstance ==
    [ raised |-> "none", pipeline_sender |-> "absent",
      pipeline_receiver |-> "absent", watch_sender |-> FALSE,
      watch_receiver |-> FALSE, rpicam_proc |-> "None", proc |-> "absent",
      signals |-> << >>, appsink |-> "None", video_links |-> {}, spawns |-> 0 ]

CreateSender(s) == [ s EXCEPT !.pipeline_sender = "NULL", !.watch_sender = TRUE ]

CreateReceiver(s) ==
    IF s.raised # "none" THEN s
    ELSE [ s EXCEPT !.pipeline_receiver = "NULL", !.watch_receiver = TRUE ]

\* __init__ from the resolver's result r onwards
Constructor(r, installed, miss, ignores) ==
    IF r.camera_specs = "None" THEN Raise(NewInstance, "RuntimeError")
    ELSE ConfigureReceiver(
             CreateReceiver(
                 ConfigureAudio(
                     ConfigureVideo(ConfigureWebrtc(CreateSender(NewInstance), miss),
                                    r.cam_path, installed, miss, ignores),
                     miss)),
             miss)

(***************************************************************************)
(* Frame appsink (drop=True, max-buffers=1) and read_frame                 *)
(***************************************************************************)
max_buffers == 1

\* mutant: the appsink keeps two buffers, so the head can be a superseded one
AppsinkPushTwoBuffers(q, f) ==
    IF Len(q) >= max_buffers + 1 THEN Append(Tail(q), f) ELSE Append(q, f)

appsink_drop == TRUE

\* mutant: the appsink is left at drop=False and makes its upstream wait
\* while it is full
AppsinkAcceptsNoDrop(q) == Len(q) < max_buffers

\* whether the appsink takes a buffer without making its upstream wait
AppsinkAccepts(q) == appsink_drop \/ Len(q) < max_buffers

\* a buffer reaches the appsink: with drop=True a full queue loses its oldest
AppsinkPush(q, f) ==
    IF Len(q) >= max_buffers THEN Append(Tail(q), f) ELSE Append(q, f)

\* the appsink hands out samples only between its start (READY->PAUSED) and
\* its stop (PAUSED->READY)
Started(state) == state \in { "PAUSED", "PLAYING" }

\* read_frame: None without an appsink, None when try_pull_sample times out,
\* else the pulled buffer (0 stands for None)
ReadFrameValue(sink, q, state) ==
    IF sink = "None" THEN 0
    ELSE IF Started(state) /\ q # << >> THEN Head(q)
         ELSE 0

ReadFrameQueue(sink, q, state) ==
    IF sink # "None" /\ Started(state) /\ q # << >> THEN Tail(q) ELSE q

Readers == 1..NumReaders

\* try_pull_sample(Gst.SECOND): the wait, in seconds
pull_timeout == 1

\* mutant: pull_sample without a timeout
TimedOutNever(w) == FALSE

\* the timeout of try_pull_sample has run out after w seconds of waiting
TimedOut(w) == w >= pull_timeout

(***************************************************************************)
(* State groups                                                            *)
(***************************************************************************)
envVars == << devices, rpicam_installed, missing, ignores_term >>

resolverVars == << resolved, monitor >>

instanceVars ==
    << phase, raised, cam_path, camera_specs, pipeline_sender,
       pipeline_receiver, watch_sender, watch_receiver, rpicam_proc, proc,
       signals, appsink >>

readerVars == << rpc, rstart, rlatest, rgot, rwait >>

builtVars == << video_links, spawns >>

flowVars ==
    << teed, decodeq, webrtcq, tcpq, tcp_sent, client, client_first,
       client_pos, connects, webrtc_last >>

extVars ==
    << socket_exists, camera_reader, resp_status, resp_image, req_quality, used_quality, reads, stream, stream_status, req_fps, stream_fps, parts, sleeps, status_response,
       frame_read, stream_req_quality, stream_quality,
       abuf, live, rframe, rsnap,
       pcs, peer_connections, cleanup, closing,
       track_next, video_frame,
       timers,
       call,
       last_bus,
       getcam, camera_lock, cameras,
       yielded >>

Unbuilt ==
    /\ phase = "none"
    /\ raised = NewInstance.raised
    /\ cam_path = ""
    /\ camera_specs = "None"
    /\ pipeline_sender = NewInstance.pipeline_sender
    /\ pipeline_receiver = NewInstance.pipeline_receiver
    /\ watch_sender = NewInstance.watch_sender
    /\ watch_receiver = NewInstance.watch_receiver
    /\ rpicam_proc = NewInstance.rpicam_proc
    /\ proc = NewInstance.proc
    /\ signals = NewInstance.signals
    /\ appsink = NewInstance.appsink
    /\ video_links = NewInstance.video_links
    /\ spawns = NewInstance.spawns

FlowIdle ==
    /\ teed = 0
    /\ decodeq = << >>
    /\ webrtcq = << >>
    /\ tcpq = << >>
    /\ tcp_sent = 0
    /\ client = "absent"
    /\ client_first = 0
    /\ client_pos = 0
    /\ connects = 0
    /\ webrtc_last = 0

ExtIdle ==
    /\ socket_exists = FALSE
    /\ camera_reader = "None"
    /\ resp_status = 0
    /\ resp_image = FALSE
    /\ req_quality = 0
    /\ used_quality = 0
    /\ reads = 0
    /\ stream = "none"
    /\ stream_status = 0
    /\ req_fps = [ k |-> "num", v |-> 0 ]
    /\ stream_fps = [ k |-> "num", v |-> 0 ]
    /\ parts = 0
    /\ sleeps = 0
    /\ status_response = << >>
    /\ frame_read = ""
    /\ stream_req_quality = 0
    /\ stream_quality = 0
    /\ abuf = [ full |-> FALSE, size |-> 0, data |-> 0 ]
    /\ live = 0
    /\ rframe = [ k |-> "none", len |-> 0, data |-> 0, ref |-> FALSE ]
    /\ rsnap = 0
    /\ pcs = [ i \in 1..NumPeers |-> [ state |-> "unborn", is_closed |-> FALSE, pending |-> 0,
                                       offer |-> "none" ] ]
    /\ peer_connections = {}
    /\ cleanup = "idle"
    /\ closing = {}
    /\ track_next = 0
    /\ video_frame = [ k |-> "none" ]
    /\ timers = 0
    /\ call = [ t \in 1..NumThreads |-> [ op |-> "none", pc |-> "idle" ] ]
    /\ last_bus = "none"
    /\ getcam = [ t \in 1..NumThreads |->
                   [ pc |-> "idle", ret |-> "", reads |-> 0, warm |-> FALSE ] ]
    /\ camera_lock = 0
    /\ cameras = 0
    /\ yielded = [ ret |-> FALSE, part |-> << >> ]

Quiet ==
    /\ FlowIdle
    /\ inst = << >>
    /\ ExtIdle
    /\ sinkq = << >>
    /\ produced = 0
    /\ lastOp = "none"
    /\ lastRead = 0
    /\ last_msg = "none"
    /\ playing_fault = FALSE
    /\ stopped = FALSE

ReadersIdle ==
    /\ rpc = [ r \in Readers |-> "idle" ]
    /\ rstart = [ r \in Readers |-> 0 ]
    /\ rlatest = [ r \in Readers |-> 0 ]
    /\ rgot = [ r \in Readers |-> 0 ]
    /\ rwait = [ r \in Readers |-> 0 ]

(***************************************************************************)
(* Resolver alone                                                          *)
(***************************************************************************)
InitResolve ==
    /\ devices \in SeqsUpTo(Devices, MaxDevices)
    /\ rpicam_installed = TRUE
    /\ missing = {}
    /\ ignores_term = FALSE
    /\ resolved = NotFound
    /\ monitor = "idle"
    /\ Unbuilt
    /\ Quiet
    /\ ReadersIdle

\* _get_video_device: start the monitor, scan, stop the monitor, return
Resolve ==
    /\ monitor = "idle"
    /\ resolved' = GetVideoDevice(devices)
    /\ monitor' = MonitorAtReturn(GetVideoDevice(devices))
    /\ lastOp' = "_get_video_device"
    /\ UNCHANGED << envVars, builtVars, flowVars, inst, extVars,
                    instanceVars, readerVars, sinkq, produced,
                    lastRead, last_msg, playing_fault, stopped >>

SpecResolve == InitResolve /\ [][Resolve]_vars

(***************************************************************************)
(* Construction                                                            *)
(***************************************************************************)
RECURSIVE SubsetsUpTo(_, _)
SubsetsUpTo(S, n) ==
    IF n = 0 THEN { {} }
    ELSE LET smaller == SubsetsUpTo(S, n - 1)
         IN  smaller \cup { m \cup {x} : m \in smaller, x \in S }

InitConstruct ==
    /\ devices \in SeqsUpTo(Devices, MaxCtorDevices)
    /\ rpicam_installed \in BOOLEAN
    /\ missing \in SubsetsUpTo(Factories, MaxMissing)
    /\ ignores_term \in BOOLEAN
    /\ resolved = NotFound
    /\ monitor = "idle"
    /\ Unbuilt
    /\ Quiet
    /\ ReadersIdle

\* GstWebRTC.__init__
Construct ==
    /\ phase = "none"
    /\ LET r == GetVideoDevice(devices)
           s == Constructor(r, rpicam_installed, missing, ignores_term)
       IN  /\ resolved' = r
           /\ monitor' = MonitorAtReturn(r)
           /\ cam_path' = r.cam_path
           /\ camera_specs' = r.camera_specs
           /\ phase' = IF s.raised = "none" THEN "built" ELSE "failed"
           /\ raised' = s.raised
           /\ pipeline_sender' = s.pipeline_sender
           /\ pipeline_receiver' = s.pipeline_receiver
           /\ watch_sender' = s.watch_sender
           /\ watch_receiver' = s.watch_receiver
           /\ rpicam_proc' = s.rpicam_proc
           /\ proc' = s.proc
           /\ signals' = s.signals
           /\ appsink' = s.appsink
           /\ video_links' = s.video_links
           /\ spawns' = s.spawns
    /\ lastOp' = "__init__"
    /\ UNCHANGED << envVars, flowVars, inst, extVars, readerVars, sinkq, produced,
                    lastRead, last_msg, playing_fault, stopped >>

\* mutant: the bus watches are removed before the subprocess is cleaned up,
\* so a missing bus attribute ends __del__ before _cleanup_rpicam
DelInstanceWatchesFirst(s, ignores) ==
    IF s.pipeline_sender = "absent" \/ s.pipeline_receiver = "absent"
    THEN [ s EXCEPT !.watch_sender = FALSE ]
    ELSE [ CleanupRpicam(s, ignores) EXCEPT !.watch_sender = FALSE,
                                            !.watch_receiver = FALSE ]

\* __del__: _cleanup_rpicam(), loop.quit(), then remove_watch() on both
\* buses. An exception ends the method there and goes no further (Python
\* reports and drops exceptions of __del__): AttributeError when a bus
\* attribute was never assigned.
DelInstance(s, ignores) ==
    LET c == CleanupRpicam([ s EXCEPT !.raised = "none" ], ignores)
        d == IF c.raised # "none" \/ c.pipeline_sender = "absent" THEN c
             ELSE IF c.pipeline_receiver = "absent"
                  THEN [ c EXCEPT !.watch_sender = FALSE ]
                  ELSE [ c EXCEPT !.watch_sender = FALSE, !.watch_receiver = FALSE ]
    IN  [ d EXCEPT !.raised = s.raised ]

\* the attributes of the instance as __del__ finds them
Instance ==
    [ raised |-> raised, pipeline_sender |-> pipeline_sender,
      pipeline_receiver |-> pipeline_receiver, watch_sender |-> watch_sender,
      watch_receiver |-> watch_receiver, rpicam_proc |-> rpicam_proc,
      proc |-> proc, signals |-> signals, appsink |-> appsink,
      video_links |-> video_links, spawns |-> spawns ]

\* the instance, built or left half-built by a failed __init__, is destroyed
Del ==
    /\ phase \in { "built", "failed" }
    /\ LET s == DelInstance(Instance, ignores_term)
       IN  /\ rpicam_proc' = s.rpicam_proc
           /\ proc' = s.proc
           /\ signals' = s.signals
           /\ watch_sender' = s.watch_sender
           /\ watch_receiver' = s.watch_receiver
    /\ phase' = "deleted"
    /\ lastOp' = "__del__"
    /\ UNCHANGED << envVars, builtVars, flowVars, inst, extVars, resolverVars,
                    readerVars, raised, cam_path, camera_specs,
                    pipeline_sender, pipeline_receiver, appsink, sinkq,
                    produced, lastRead, last_msg, playing_fault, stopped >>

SpecConstruct == InitConstruct /\ [][Construct]_vars

\* construction followed by the destruction of what it left
SpecDestroy ==
    InitConstruct /\ [][
        \/ Construct
        \/ Del
    ]_vars

(***************************************************************************)
(* Lifecycle of a constructed instance                                     *)
(***************************************************************************)
\* one enumeration per hardware class: a camera with a V4L2 path (v4l2
\* graph) and an IMX708 without one (rpicam graph)
LifecycleDevices ==
    { << [ name |-> {"Reachy"}, path |-> "/dev/video0" ] >>,
      << [ name |-> {"imx708"}, path |-> NoPath ] >> }

\* the state __init__ leaves when it returns normally
Init ==
    /\ devices \in LifecycleDevices
    /\ rpicam_installed = TRUE
    /\ missing = {}
    /\ ignores_term \in BOOLEAN
    /\ LET r == GetVideoDevice(devices)
           s == Constructor(r, rpicam_installed, missing, ignores_term)
       IN  /\ resolved = r
           /\ monitor = "stopped"
           /\ cam_path = r.cam_path
           /\ camera_specs = r.camera_specs
           /\ phase = "built"
           /\ raised = s.raised
           /\ pipeline_sender = s.pipeline_sender
           /\ pipeline_receiver = s.pipeline_receiver
           /\ watch_sender = s.watch_sender
           /\ watch_receiver = s.watch_receiver
           /\ rpicam_proc = s.rpicam_proc
           /\ proc = s.proc
           /\ signals = s.signals
           /\ appsink = s.appsink
           /\ video_links = s.video_links
           /\ spawns = s.spawns
    /\ Quiet
    /\ ReadersIdle

\* GLib.timeout_add_seconds(5, self._dump_latency): one more timeout is
\* pending (those beyond MaxTimers are not followed)
Armed(n) == IF n < MaxTimers THEN n + 1 ELSE n

\* mutant: start() sets only the sender pipeline to PLAYING
StartSenderOnly ==
    /\ phase = "built"
    /\ pipeline_sender' = "PLAYING"
    /\ pipeline_receiver' = pipeline_receiver
    /\ timers' = Armed(timers)
    /\ raised' = "none"
    /\ lastOp' = "start"
    /\ UNCHANGED << envVars, builtVars, flowVars, inst, socket_exists,
                    camera_reader, resp_status, resp_image, req_quality,
                    used_quality, reads, stream, stream_status, req_fps,
                    stream_fps, parts, sleeps, status_response, frame_read,
                    stream_req_quality, stream_quality, abuf, live, rframe,
                    rsnap, pcs, peer_connections, cleanup, closing,
                    track_next, video_frame, resolverVars, readerVars, phase,
                    cam_path, camera_specs, watch_sender, watch_receiver,
                    rpicam_proc, proc, signals, appsink, sinkq, produced,
                    lastRead, last_msg, playing_fault, stopped,
                    call,
                    last_bus,
                    getcam, camera_lock, cameras,
                    yielded >>

\* start()
Start ==
    /\ phase = "built"
    /\ pipeline_sender' = "PLAYING"
    /\ pipeline_receiver' = "PLAYING"
    /\ timers' = Armed(timers)
    /\ raised' = "none"
    /\ lastOp' = "start"
    /\ UNCHANGED << envVars, builtVars, flowVars, inst, socket_exists,
                    camera_reader, resp_status, resp_image, req_quality,
                    used_quality, reads, stream, stream_status, req_fps,
                    stream_fps, parts, sleeps, status_response, frame_read,
                    stream_req_quality, stream_quality, abuf, live, rframe,
                    rsnap, pcs, peer_connections, cleanup, closing,
                    track_next, video_frame, resolverVars, readerVars, phase,
                    cam_path, camera_specs, watch_sender, watch_receiver,
                    rpicam_proc, proc, signals, appsink, sinkq, produced,
                    lastRead, last_msg, playing_fault, stopped,
                    call,
                    last_bus,
                    getcam, camera_lock, cameras,
                    yielded >>

\* pause()
Pause ==
    /\ phase = "built"
    /\ pipeline_sender' = "PAUSED"
    /\ pipeline_receiver' = "PAUSED"
    /\ raised' = "none"
    /\ lastOp' = "pause"
    /\ UNCHANGED << envVars, builtVars, flowVars, inst, extVars,
                    resolverVars, readerVars, phase, cam_path,
                    camera_specs, watch_sender, watch_receiver, rpicam_proc,
                    proc, signals, appsink, sinkq, produced, lastRead,
                    last_msg, playing_fault, stopped >>

\* stop(): both pipelines to NULL (the appsink flushes its queue on the way
\* down), then _cleanup_rpicam
Stop ==
    /\ phase = "built"
    /\ pipeline_sender' = "NULL"
    /\ pipeline_receiver' = "NULL"
    /\ sinkq' = << >>
    /\ LET \* the fields _cleanup_rpicam works on, at the start of the call
           self == [ raised |-> "none", rpicam_proc |-> rpicam_proc,
                     proc |-> proc, signals |-> << >> ]
           s == CleanupRpicam(self, ignores_term)
       IN  /\ rpicam_proc' = s.rpicam_proc
           /\ proc' = s.proc
           /\ signals' = s.signals
           /\ raised' = s.raised
    /\ stopped' = TRUE
    /\ lastOp' = "stop"
    /\ UNCHANGED << envVars, builtVars, flowVars, inst, extVars,
                    resolverVars, readerVars, phase, cam_path,
                    camera_specs, watch_sender, watch_receiver, appsink,
                    produced, lastRead, last_msg, playing_fault >>

\* read_frame(), called by one thread at a time
ReadFrame ==
    /\ phase = "built"
    /\ lastRead' = ReadFrameValue(appsink, sinkq, pipeline_sender)
    /\ sinkq' = ReadFrameQueue(appsink, sinkq, pipeline_sender)
    /\ raised' = "none"
    /\ lastOp' = "read_frame"
    /\ UNCHANGED << envVars, builtVars, flowVars, inst, extVars,
                    resolverVars, readerVars, phase, cam_path,
                    camera_specs, pipeline_sender, pipeline_receiver,
                    watch_sender, watch_receiver, rpicam_proc, proc, signals,
                    appsink, produced, last_msg, playing_fault, stopped >>

Faults == { "EOS", "ERROR" }

\* mutant: the handler returns True for every message
OnBusMessageKeepsWatch(t) == TRUE

\* _on_bus_message: the return value, i.e. whether the watch stays attached;
\* the handler logs and touches nothing else
OnBusMessage(t) == t \notin Faults

\* a message is dispatched by the main loop to the watch of one bus
BusMessage ==
    /\ phase = "built"
    /\ \E bus \in { "sender", "receiver" },
          t \in { "EOS", "ERROR", "STATE_CHANGED" } :
          /\ IF bus = "sender" THEN watch_sender ELSE watch_receiver
          /\ watch_sender' = IF bus = "sender" THEN OnBusMessage(t) ELSE watch_sender
          /\ watch_receiver' = IF bus = "receiver" THEN OnBusMessage(t) ELSE watch_receiver
          /\ last_msg' = t
          /\ last_bus' = bus
          /\ playing_fault' = (t \in Faults /\ pipeline_sender = "PLAYING")
    /\ lastOp' = "_on_bus_message"
    /\ UNCHANGED << envVars, builtVars, flowVars, inst, socket_exists,
                    camera_reader, resp_status, resp_image, req_quality,
                    used_quality, reads, stream, stream_status, req_fps,
                    stream_fps, parts, sleeps, status_response, frame_read,
                    stream_req_quality, stream_quality, abuf, live, rframe,
                    rsnap, pcs, peer_connections, cleanup, closing,
                    track_next, video_frame, timers, call, resolverVars,
                    readerVars, phase, raised, cam_path, camera_specs,
                    pipeline_sender, pipeline_receiver, rpicam_proc, proc,
                    signals, appsink, sinkq, produced, lastRead, stopped,
                    getcam, camera_lock, cameras,
                    yielded >>

\* the graph delivers one more frame to the appsink; the rpicam graph has
\* frames only while rpicam-vid runs
Produce ==
    /\ phase = "built"
    /\ pipeline_sender = "PLAYING"
    /\ appsink # "None"
    /\ cam_path = "imx708" => proc = "running"
    /\ produced < MaxFrames
    /\ AppsinkAccepts(sinkq)
    /\ produced' = produced + 1
    /\ sinkq' = AppsinkPush(sinkq, produced + 1)
    /\ lastOp' = "produce"
    /\ UNCHANGED << envVars, builtVars, flowVars, inst, extVars,
                    resolverVars, readerVars, instanceVars, lastRead,
                    last_msg, playing_fault, stopped >>

\* rpicam-vid exits by itself
ProcExit ==
    /\ phase = "built"
    /\ proc = "running"
    /\ proc' = "exited"
    /\ lastOp' = "proc_exit"
    /\ UNCHANGED << envVars, builtVars, flowVars, inst, extVars,
                    resolverVars, readerVars, phase, raised, cam_path,
                    camera_specs, pipeline_sender, pipeline_receiver,
                    watch_sender, watch_receiver, rpicam_proc, signals, appsink,
                    sinkq, produced, lastRead, last_msg, playing_fault, stopped >>

Next ==
    \/ Start
    \/ Pause
    \/ Stop
    \/ ReadFrame
    \/ BusMessage
    \/ Produce
    \/ ProcExit

Spec == Init /\ [][Next]_vars

(***************************************************************************)
(* Frame sink under concurrent readers                                     *)
(***************************************************************************)
\* a constructed instance after start(), no frame delivered yet
InitSink ==
    /\ devices \in LifecycleDevices
    /\ rpicam_installed = TRUE
    /\ missing = {}
    /\ ignores_term = FALSE
    /\ LET r == GetVideoDevice(devices)
           s == Constructor(r, rpicam_installed, missing, ignores_term)
       IN  /\ resolved = r
           /\ monitor = "stopped"
           /\ cam_path = r.cam_path
           /\ camera_specs = r.camera_specs
           /\ phase = "built"
           /\ raised = s.raised
           /\ pipeline_sender = "PLAYING"
           /\ pipeline_receiver = "PLAYING"
           /\ watch_sender = s.watch_sender
           /\ watch_receiver = s.watch_receiver
           /\ rpicam_proc = s.rpicam_proc
           /\ proc = s.proc
           /\ signals = s.signals
           /\ appsink = s.appsink
           /\ video_links = s.video_links
           /\ spawns = s.spawns
    /\ FlowIdle
    /\ inst = << >>
    /\ ExtIdle
    /\ sinkq = << >>
    /\ produced = 0
    /\ lastOp = "start"
    /\ lastRead = 0
    /\ last_msg = "none"
    /\ playing_fault = FALSE
    /\ stopped = FALSE
    /\ ReadersIdle

\* a thread enters read_frame(); without an appsink it returns None at once
ReadBegin(r) ==
    /\ rpc[r] = "idle"
    /\ rpc' = [ rpc EXCEPT ![r] = IF appsink = "None" THEN "done" ELSE "pulling" ]
    /\ rstart' = [ rstart EXCEPT ![r] = produced ]
    /\ rlatest' = [ rlatest EXCEPT ![r] = 0 ]
    /\ rgot' = [ rgot EXCEPT ![r] = 0 ]
    /\ rwait' = [ rwait EXCEPT ![r] = 0 ]
    /\ lastOp' = "read_begin"
    /\ UNCHANGED << envVars, builtVars, flowVars, inst, extVars, resolverVars,
                    instanceVars, sinkq, produced, lastRead, last_msg,
                    playing_fault, stopped >>

\* try_pull_sample takes the queued buffer under the appsink's lock
ReadPull(r) ==
    /\ rpc[r] = "pulling"
    /\ ReadFrameValue(appsink, sinkq, pipeline_sender) # 0
    /\ rgot' = [ rgot EXCEPT ![r] = ReadFrameValue(appsink, sinkq, pipeline_sender) ]
    /\ sinkq' = ReadFrameQueue(appsink, sinkq, pipeline_sender)
    /\ rlatest' = [ rlatest EXCEPT ![r] = produced ]
    /\ rpc' = [ rpc EXCEPT ![r] = "done" ]
    /\ lastOp' = "read_pull"
    /\ UNCHANGED << envVars, builtVars, flowVars, inst, extVars, resolverVars,
                    instanceVars, rstart, rwait, produced, lastRead, last_msg,
                    playing_fault, stopped >>

\* a second passes while a thread waits in try_pull_sample on an empty,
\* started appsink
Tick(r) ==
    /\ rpc[r] = "pulling"
    /\ ReadFrameValue(appsink, sinkq, pipeline_sender) = 0
    /\ Started(pipeline_sender)
    /\ ~TimedOut(rwait[r])
    /\ rwait[r] < MaxWait
    /\ rwait' = [ rwait EXCEPT ![r] = rwait[r] + 1 ]
    /\ lastOp' = "tick"
    /\ UNCHANGED << envVars, builtVars, flowVars, inst, extVars, resolverVars,
                    instanceVars, rpc, rstart, rlatest, rgot, sinkq, produced,
                    lastRead, last_msg, playing_fault, stopped >>

\* try_pull_sample gives up: at once on an appsink that is not started, else
\* after Gst.SECOND with nothing queued
ReadTimeout(r) ==
    /\ rpc[r] = "pulling"
    /\ ReadFrameValue(appsink, sinkq, pipeline_sender) = 0
    /\ ~Started(pipeline_sender) \/ TimedOut(rwait[r])
    /\ rgot' = [ rgot EXCEPT ![r] = 0 ]
    /\ rpc' = [ rpc EXCEPT ![r] = "done" ]
    /\ lastOp' = "read_timeout"
    /\ UNCHANGED << envVars, builtVars, flowVars, inst, extVars, resolverVars,
                    instanceVars, rstart, rlatest, rwait, sinkq, produced,
                    lastRead, last_msg, playing_fault, stopped >>

\* read_frame() returns to its caller
ReadReturn(r) ==
    /\ rpc[r] = "done"
    /\ rpc' = [ rpc EXCEPT ![r] = "idle" ]
    /\ rstart' = [ rstart EXCEPT ![r] = 0 ]
    /\ rlatest' = [ rlatest EXCEPT ![r] = 0 ]
    /\ rgot' = [ rgot EXCEPT ![r] = 0 ]
    /\ rwait' = [ rwait EXCEPT ![r] = 0 ]
    /\ lastOp' = "read_return"
    /\ UNCHANGED << envVars, builtVars, flowVars, inst, extVars, resolverVars,
                    instanceVars, sinkq, produced, lastRead, last_msg,
                    playing_fault, stopped >>

SpecSink ==
    InitSink /\ [][
        \/ Produce
        \/ \E r \in Readers : ReadBegin(r)
        \/ \E r \in Readers : ReadPull(r)
        \/ \E r \in Readers : Tick(r)
        \/ \E r \in Readers : ReadTimeout(r)
        \/ \E r \in Readers : ReadReturn(r)
    ]_vars

\* time passes, and a call that can finish its pull does so; nothing is
\* assumed of the producer or of when callers enter and leave
SpecSinkLive ==
    /\ SpecSink
    /\ \A r \in Readers :
          /\ WF_vars(Tick(r))
          /\ WF_vars(ReadPull(r) \/ ReadTimeout(r))

(***************************************************************************)
(* Branches of the tee: frame sink, live transport, recording transport    *)
(***************************************************************************)
\* queue_webrtc: max-size-buffers and leaky (2 = downstream, drop oldest)
queue_webrtc_max == 1
queue_webrtc_leaky == 2

\* queue_tcp, queue_decode, queue_appsink: no property set, so not leaky;
\* QueueCap stands for their default size limit
default_leaky == 0

\* a queue takes a buffer without making the tee wait
QueueAccepts(q, max, leaky) == leaky # 0 \/ Len(q) < max

\* a buffer enters a queue: a full queue drops its oldest buffer (leaky 2)
\* or the new one (leaky 1)
QueuePush(q, f, max, leaky) ==
    IF Len(q) < max THEN Append(q, f)
    ELSE IF leaky = 2 THEN Append(Tail(q), f)
         ELSE q

\* mutant: queue_webrtc without the leaky property
WebrtcQueueAcceptsNotLeaky(q) == QueueAccepts(q, queue_webrtc_max, default_leaky)

WebrtcQueueAccepts(q) == QueueAccepts(q, queue_webrtc_max, queue_webrtc_leaky)

\* rpicam-vid --intra 15; v4l2h264enc h264_i_frame_period 60
Intra(path) == IF path = "imx708" THEN 15 ELSE 60

IsKeyframe(n) == (n - 1) % Intra(cam_path) = 0

\* tcpserversink: recover-policy 3 (keyframe) is what the code sets;
\* sync-method and units-soft-max are left at their defaults
recover_policy == 3
sync_method == "latest"
units_soft_max == -1

\* buffers rendered for the client that it has not received yet
Pending(first, pos, sent) ==
    IF first = 0 THEN 0
    ELSE IF pos = 0 THEN sent - first + 1
         ELSE sent - pos

\* mutant: the sink writes to its client synchronously
TcpSinkAcceptsBlocking(c, pending) == c = "absent" \/ pending = 0

\* tcpserversink with sync=False renders a buffer at once: it keeps the data
\* for its clients and waits neither for the clock nor for any client
TcpSinkAccepts(c, pending) == TRUE

\* whether a client that has not been sent anything yet starts at buffer b
NewClientStarts(b) == sync_method = "latest" \/ IsKeyframe(b)

\* a client that lags by more than units-soft-max is moved as the recover
\* policy says (3: to the last keyframe); a negative limit disables this
RECURSIVE LastKeyframe(_)
LastKeyframe(n) == IF n <= 1 \/ IsKeyframe(n) THEN n ELSE LastKeyframe(n - 1)

RecoverPosition(pos, pending, sent) ==
    IF units_soft_max >= 0 /\ pending > units_soft_max /\ recover_policy = 3
    THEN LastKeyframe(sent) - 1
    ELSE pos

SourceRuns ==
    /\ phase = "built"
    /\ pipeline_sender = "PLAYING"
    /\ cam_path = "imx708" => proc = "running"

\* the tee pushes the next buffer into its three branches; it waits while
\* any of them does not accept
TeePush ==
    /\ SourceRuns
    /\ teed < MaxFrames
    /\ WebrtcQueueAccepts(webrtcq)
    /\ QueueAccepts(tcpq, QueueCap, default_leaky)
    /\ QueueAccepts(decodeq, QueueCap, default_leaky)
    /\ teed' = teed + 1
    /\ webrtcq' = QueuePush(webrtcq, teed + 1, queue_webrtc_max, queue_webrtc_leaky)
    /\ tcpq' = QueuePush(tcpq, teed + 1, QueueCap, default_leaky)
    /\ decodeq' = QueuePush(decodeq, teed + 1, QueueCap, default_leaky)
    /\ lastOp' = "tee"
    /\ UNCHANGED << envVars, builtVars, inst, extVars, resolverVars, instanceVars,
                    readerVars, tcp_sent, client, client_first, client_pos,
                    connects, webrtc_last, sinkq, produced, lastRead, last_msg,
                    playing_fault, stopped >>

\* webrtcsink takes the queued buffer
WebrtcTake ==
    /\ phase = "built"
    /\ webrtcq # << >>
    /\ webrtc_last' = Head(webrtcq)
    /\ webrtcq' = Tail(webrtcq)
    /\ lastOp' = "webrtc_take"
    /\ UNCHANGED << envVars, builtVars, inst, extVars, resolverVars, instanceVars,
                    readerVars, teed, decodeq, tcpq, tcp_sent, client,
                    client_first, client_pos, connects, sinkq, produced,
                    lastRead, last_msg, playing_fault, stopped >>

\* the frame-sink branch moves one buffer from its queue into the appsink
DecodeStep ==
    /\ phase = "built"
    /\ decodeq # << >>
    /\ appsink # "None"
    /\ AppsinkAccepts(sinkq)
    /\ sinkq' = AppsinkPush(sinkq, Head(decodeq))
    /\ produced' = Head(decodeq)
    /\ decodeq' = Tail(decodeq)
    /\ lastOp' = "decode"
    /\ UNCHANGED << envVars, builtVars, inst, extVars, resolverVars, instanceVars,
                    readerVars, teed, webrtcq, tcpq, tcp_sent, client,
                    client_first, client_pos, connects, webrtc_last, lastRead,
                    last_msg, playing_fault, stopped >>

\* tcpserversink renders the next buffer of queue_tcp
TcpSinkRender ==
    /\ phase = "built"
    /\ tcpq # << >>
    /\ TcpSinkAccepts(client, Pending(client_first, client_pos, tcp_sent))
    /\ tcp_sent' = Head(tcpq)
    /\ tcpq' = Tail(tcpq)
    /\ client_first' = IF client = "connected" /\ client_first = 0
                          /\ NewClientStarts(Head(tcpq))
                       THEN Head(tcpq)
                       ELSE client_first
    /\ client_pos' = IF client = "connected" /\ client_first # 0
                     THEN RecoverPosition(client_pos,
                              Pending(client_first, client_pos, Head(tcpq)),
                              Head(tcpq))
                     ELSE client_pos
    /\ lastOp' = "tcp_render"
    /\ UNCHANGED << envVars, builtVars, inst, extVars, resolverVars, instanceVars,
                    readerVars, teed, decodeq, webrtcq, client, connects,
                    webrtc_last, sinkq, produced, lastRead, last_msg,
                    playing_fault, stopped >>

\* a recording client connects to port 9001
ClientConnect ==
    /\ phase = "built"
    /\ client = "absent"
    /\ connects < MaxConnects
    /\ client' = "connected"
    /\ client_first' = 0
    /\ client_pos' = 0
    /\ connects' = connects + 1
    /\ lastOp' = "client_connect"
    /\ UNCHANGED << envVars, builtVars, inst, extVars, resolverVars, instanceVars,
                    readerVars, teed, decodeq, webrtcq, tcpq, tcp_sent,
                    webrtc_last, sinkq, produced, lastRead, last_msg,
                    playing_fault, stopped >>

\* the recording client goes away
ClientDisconnect ==
    /\ client = "connected"
    /\ client' = "absent"
    /\ lastOp' = "client_disconnect"
    /\ UNCHANGED << envVars, builtVars, inst, extVars, resolverVars, instanceVars,
                    readerVars, teed, decodeq, webrtcq, tcpq, tcp_sent,
                    client_first, client_pos, connects, webrtc_last, sinkq,
                    produced, lastRead, last_msg, playing_fault, stopped >>

\* the recording client reads the next buffer kept for it
ClientRecv ==
    /\ client = "connected"
    /\ Pending(client_first, client_pos, tcp_sent) > 0
    /\ client_pos' = IF client_pos = 0 THEN client_first ELSE client_pos + 1
    /\ lastOp' = "client_recv"
    /\ UNCHANGED << envVars, builtVars, inst, extVars, resolverVars, instanceVars,
                    readerVars, teed, decodeq, webrtcq, tcpq, tcp_sent, client,
                    client_first, connects, webrtc_last, sinkq, produced,
                    lastRead, last_msg, playing_fault, stopped >>

SpecGraph ==
    InitSink /\ [][
        \/ TeePush
        \/ WebrtcTake
        \/ DecodeStep
        \/ TcpSinkRender
        \/ ClientConnect
        \/ ClientDisconnect
        \/ ClientRecv
        \/ ReadFrame
    ]_vars

\* the camera keeps delivering and the streaming threads of the branches
\* keep running; nothing is assumed of the recording client, of webrtcsink
\* or of the readers
SpecGraphLive ==
    /\ SpecGraph
    /\ WF_vars(TeePush)
    /\ WF_vars(DecodeStep)
    /\ WF_vars(TcpSinkRender)

(***************************************************************************)
(* Shape of the linked video graph                                         *)
(***************************************************************************)
\* the elements from which S is reached over the links
RECURSIVE Upstream(_, _)
Upstream(links, S) ==
    LET T == S \cup { l[1] : l \in { m \in links : m[2] \in S } }
    IN  IF T = S THEN S ELSE Upstream(links, T)

\* the elements without an upstream link from which the sink is fed
Sources(links, sink) ==
    { n \in Upstream(links, {sink}) : ~ \E l \in links : l[2] = n }

\* the links that neither enter nor leave element e
Without(links, e) == { l \in links : l[1] # e /\ l[2] # e }

\* webrtcsink, tcpserversink and the appsink
VideoSinks == { "webrtcsink", "tcpserversink", "frame_appsink" }

\* element factories that encode video inside the graph
Encoders == { "v4l2h264enc" }

(***************************************************************************)
(* Several instances in one process against the same enumeration           *)
(***************************************************************************)
Instances == 1..NumInstances

InitShared ==
    /\ devices \in SeqsUpTo(Devices, MaxCtorDevices)
    /\ rpicam_installed \in BOOLEAN
    /\ missing = {}
    /\ ignores_term \in BOOLEAN
    /\ resolved = NotFound
    /\ monitor = "idle"
    /\ Unbuilt
    /\ FlowIdle
    /\ inst = [ i \in Instances |->
                 [ phase |-> "none", cam_path |-> "", built |-> NewInstance ] ]
    /\ ExtIdle
    /\ sinkq = << >>
    /\ produced = 0
    /\ lastOp = "none"
    /\ lastRead = 0
    /\ last_msg = "none"
    /\ playing_fault = FALSE
    /\ stopped = FALSE
    /\ ReadersIdle

\* GstWebRTC(): __init__ consults the device enumeration and the installed
\* binaries and factories, and nothing about the other instances
ConstructInst(i) ==
    /\ inst[i].phase = "none"
    /\ LET r == GetVideoDevice(devices)
           s == Constructor(r, rpicam_installed, missing, ignores_term)
       IN  inst' = [ inst EXCEPT ![i] =
                        [ phase |-> IF s.raised = "none" THEN "built" ELSE "failed",
                          cam_path |-> r.cam_path,
                          built |-> s ] ]
    /\ lastOp' = "__init__"
    /\ UNCHANGED << extVars, envVars, builtVars, flowVars, resolverVars,
                    instanceVars, readerVars, sinkq, produced, lastRead,
                    last_msg, playing_fault, stopped >>

\* the instance is destroyed and what it held is released
DelInst(i) ==
    /\ inst[i].phase \in { "built", "failed" }
    /\ inst' = [ inst EXCEPT ![i] =
                    [ phase |-> "deleted",
                      cam_path |-> inst[i].cam_path,
                      built |-> DelInstance(inst[i].built, ignores_term) ] ]
    /\ lastOp' = "__del__"
    /\ UNCHANGED << extVars, envVars, builtVars, flowVars, resolverVars,
                    instanceVars, readerVars, sinkq, produced, lastRead,
                    last_msg, playing_fault, stopped >>

\* the rpicam-vid process of an instance exits by itself, as it does when it
\* cannot acquire the camera
EncoderExits(i) ==
    /\ inst[i].built.proc = "running"
    /\ inst' = [ inst EXCEPT ![i].built.proc = "exited" ]
    /\ lastOp' = "proc_exit"
    /\ UNCHANGED << extVars, envVars, builtVars, flowVars, resolverVars,
                    instanceVars, readerVars, sinkq, produced, lastRead,
                    last_msg, playing_fault, stopped >>

SpecShared ==
    InitShared /\ [][
        \E i \in Instances :
            \/ ConstructInst(i)
            \/ DelInst(i)
            \/ EncoderExits(i)
    ]_vars

(***************************************************************************)
(* Lifecycle state as the pipelines show it                                *)
(***************************************************************************)
\* PLAYING and PAUSED are the states set_state left; a NULL pipeline is
\* Constructed until stop() has been called and Stopped afterwards
Lifecycle ==
    IF pipeline_sender = "PLAYING" THEN "Playing"
    ELSE IF pipeline_sender = "PAUSED" THEN "Paused"
         ELSE IF stopped THEN "Stopped"
              ELSE "Constructed"

(***************************************************************************)
(* HTTP camera router: /camera/status, /camera/frame, /camera/stream       *)
(***************************************************************************)
\* values of the quality parameter tried: around both ends of the range and
\* the two defaults
QualityInputs ==
    ((1 - MaxOver)..(1 + MaxOver)) \cup { 60, 80 }
        \cup ((100 - MaxOver)..(100 + MaxOver))

\* mutant: the two bounds are applied the wrong way round
ClampQualitySwapped(q) ==
    LET m == IF q > 100 THEN q ELSE 100
    IN  IF 1 < m THEN 1 ELSE m

\* quality = max(1, min(100, quality))
ClampQuality(q) ==
    LET m == IF q < 100 THEN q ELSE 100
    IN  IF m > 1 THEN m ELSE 1

\* for i in range(10): the warm-up reads of a new reader
warmup_reads == 10

\* GStreamerCamera.read(): a frame, or None once its bounded wait is over
CameraReadResults == { "frame", "None" }

\* mutant: the warm-up reads go on until one returns a frame
GetCameraWarmsUntilFrame(reader, sock, first) ==
    IF reader # "None" THEN [ reader |-> reader, status |-> 0, reads |-> 0 ]
    ELSE IF ~sock THEN [ reader |-> "None", status |-> 503, reads |-> 0 ]
         ELSE [ reader |-> "GStreamerCamera", status |-> 0,
                reads |-> IF first = 0 THEN warmup_reads + 1 ELSE first ]

\* _get_camera. first: which warm-up read is the first to return a frame
\* (0 = none of them). status 0: the reader is returned.
GetCamera(reader, sock, first) ==
    IF reader # "None" THEN [ reader |-> reader, status |-> 0, reads |-> 0 ]
    ELSE IF ~sock THEN [ reader |-> "None", status |-> 503, reads |-> 0 ]
         ELSE [ reader |-> "GStreamerCamera", status |-> 0,
                reads |-> IF first = 0 THEN warmup_reads ELSE first ]

\* mutant: the handler does not test the frame for None; cv2.imencode then
\* raises and the request ends as an internal error
CameraFrameNoNoneTest(reader, sock, q, first, r, enc) ==
    LET g == GetCamera(reader, sock, first)
    IN  IF g.status # 0
        THEN [ reader |-> g.reader, status |-> g.status, image |-> FALSE,
               quality |-> 0, reads |-> g.reads, frame |-> "" ]
        ELSE IF r = "None" \/ ~enc
             THEN [ reader |-> g.reader, status |-> 500, image |-> FALSE,
                    quality |-> ClampQuality(q), reads |-> g.reads + 1, frame |-> r ]
             ELSE [ reader |-> g.reader, status |-> 200, image |-> TRUE,
                    quality |-> ClampQuality(q), reads |-> g.reads + 1, frame |-> r ]

\* get_camera_frame. r: what camera.read() returns; enc: cv2.imencode's ret
CameraFrame(reader, sock, q, first, r, enc) ==
    LET g == GetCamera(reader, sock, first)
    IN  IF g.status # 0
        THEN [ reader |-> g.reader, status |-> g.status, image |-> FALSE,
               quality |-> 0, reads |-> g.reads, frame |-> "" ]
        ELSE IF r = "None"
             THEN [ reader |-> g.reader, status |-> 503, image |-> FALSE,
                    quality |-> 0, reads |-> g.reads + 1, frame |-> r ]
             ELSE IF ~enc
                  THEN [ reader |-> g.reader, status |-> 500, image |-> FALSE,
                         quality |-> ClampQuality(q), reads |-> g.reads + 1,
                         frame |-> r ]
                  ELSE [ reader |-> g.reader, status |-> 200, image |-> TRUE,
                         quality |-> ClampQuality(q), reads |-> g.reads + 1,
                         frame |-> r ]

\* GET /camera/frame with a quality parameter out of Q and the first frame
\* of a new reader at a warm-up read out of W
GetCameraFrameOn(Q, W) ==
    /\ \E q \in Q, first \in W,
          r \in CameraReadResults, enc \in BOOLEAN :
          LET a == CameraFrame(camera_reader, socket_exists, q, first, r, enc)
          IN  /\ camera_reader' = a.reader
              /\ resp_status' = a.status
              /\ resp_image' = a.image
              /\ req_quality' = q
              /\ used_quality' = a.quality
              /\ reads' = a.reads
              /\ frame_read' = a.frame
    /\ lastOp' = "get_camera_frame"
    /\ UNCHANGED << envVars, builtVars, flowVars, inst, resolverVars,
                    instanceVars, readerVars, sinkq, produced, lastRead,
                    last_msg, playing_fault, stopped, abuf, live, rframe,
                    rsnap, pcs, peer_connections, cleanup, closing, stream,
                    stream_status, req_fps, stream_fps, parts, sleeps,
                    stream_req_quality, stream_quality, socket_exists,
                    status_response,
                    track_next, video_frame,
                    timers,
                    call,
                    last_bus,
                    getcam, camera_lock, cameras,
                    yielded >>

\* GstWebRTC.is_running
IsRunning == pipeline_sender = "PLAYING"

\* GET /camera/status
GetCameraStatus ==
    /\ status_response' = [ available |-> socket_exists,
                            socket_path |-> "CAMERA_SOCKET_PATH",
                            socket_exists |-> socket_exists ]
    /\ lastOp' = "get_camera_status"
    /\ UNCHANGED << envVars, builtVars, flowVars, inst, resolverVars,
                    instanceVars, readerVars, sinkq, produced, lastRead,
                    last_msg, playing_fault, stopped, abuf, live, rframe,
                    rsnap, pcs, peer_connections, cleanup, closing, stream,
                    stream_status, req_fps, stream_fps, parts, sleeps,
                    stream_req_quality, stream_quality, resp_status,
                    resp_image, req_quality, used_quality, reads,
                    socket_exists, camera_reader, frame_read,
                    track_next, video_frame,
                    timers,
                    call,
                    last_bus,
                    getcam, camera_lock, cameras,
                    yielded >>

\* the daemon creates the camera socket, or the socket goes away
SocketChange ==
    /\ socket_exists' = ~socket_exists
    /\ lastOp' = "socket"
    /\ UNCHANGED << envVars, builtVars, flowVars, inst, resolverVars,
                    instanceVars, readerVars, sinkq, produced, lastRead,
                    last_msg, playing_fault, stopped, abuf, live, rframe,
                    rsnap, pcs, peer_connections, cleanup, closing, stream,
                    stream_status, req_fps, stream_fps, parts, sleeps,
                    stream_req_quality, stream_quality, resp_status,
                    resp_image, req_quality, used_quality, reads,
                    camera_reader, frame_read, status_response,
                    track_next, video_frame,
                    timers,
                    call,
                    last_bus,
                    getcam, camera_lock, cameras,
                    yielded >>

\* Python floats, in tenths: a finite number v / 10, or one of the three
\* IEEE specials
Num(v) == [ k |-> "num", v |-> v ]

\* a < b on floats: false whenever one side is NaN
FloatLt(a, b) ==
    IF a.k = "nan" \/ b.k = "nan" THEN FALSE
    ELSE IF a.k = "inf" \/ b.k = "-inf" THEN FALSE
         ELSE IF a.k = "-inf" \/ b.k = "inf" THEN TRUE
              ELSE a.v < b.v

\* Python's max(a, b) and min(a, b): the second argument wins only when it
\* compares greater (smaller)
PyMax(a, b) == IF FloatLt(a, b) THEN b ELSE a
PyMin(a, b) == IF FloatLt(b, a) THEN b ELSE a

\* values of the fps parameter tried, in tenths
FpsInputs ==
    { Num(v) : v \in { -10, 0, 100 } \cup ((10 - MaxOver)..(10 + MaxOver))
                       \cup ((300 - MaxOver)..(300 + MaxOver)) }
        \cup { [ k |-> "nan", v |-> 0 ], [ k |-> "inf", v |-> 0 ],
               [ k |-> "-inf", v |-> 0 ] }

\* mutant: only the lower bound is applied
ClampFpsNoUpper(f) == PyMax(Num(10), f)

\* fps = max(1.0, min(30.0, fps))
ClampFps(f) == PyMax(Num(10), PyMin(Num(300), f))

\* period = 1.0 / fps, in seconds, as a fraction; division by zero raises,
\* and a special value gives no finite positive period
Period(f) ==
    IF f.k = "num" /\ f.v > 0 THEN [ k |-> "num", num |-> 10, den |-> f.v ]
    ELSE IF f.k = "num" /\ f.v = 0 THEN [ k |-> "ZeroDivisionError", num |-> 0, den |-> 1 ]
         ELSE IF f.k = "num" THEN [ k |-> "negative", num |-> -10, den |-> 0 - f.v ]
              ELSE IF f.k = "nan" THEN [ k |-> "nan", num |-> 0, den |-> 1 ]
                   ELSE [ k |-> "zero", num |-> 0, den |-> 1 ]

\* GET /camera/stream: the handler clamps both parameters and returns the
\* StreamingResponse; the response starts (status 200 and headers) before
\* the first step of the generator runs
StreamOpenOn(Q, F) ==
    /\ stream = "none"
    /\ \E q \in Q, f \in F :
          /\ stream_req_quality' = q
          /\ stream_quality' = ClampQuality(q)
          /\ req_fps' = f
          /\ stream_fps' = ClampFps(f)
    /\ stream' = "open"
    /\ stream_status' = 200
    /\ parts' = 0
    /\ sleeps' = 0
    /\ lastOp' = "get_camera_stream"
    /\ UNCHANGED << envVars, builtVars, flowVars, inst, resolverVars,
                    instanceVars, readerVars, sinkq, produced, lastRead,
                    last_msg, playing_fault, stopped, abuf, live, rframe,
                    rsnap, pcs, peer_connections, cleanup, closing,
                    resp_status, resp_image, req_quality, used_quality, reads,
                    socket_exists, status_response, camera_reader, frame_read,
                    track_next, video_frame,
                    timers,
                    call,
                    last_bus,
                    getcam, camera_lock, cameras,
                    yielded >>

\* first step of _mjpeg_generator: _get_camera and the period; an
\* HTTPException raised here ends a response that has already started
StreamBegin ==
    /\ stream = "open"
    /\ \E first \in { 0, 1, warmup_reads } :
          LET g == GetCamera(camera_reader, socket_exists, first)
          IN  /\ camera_reader' = g.reader
              /\ stream' = IF g.status # 0 \/ Period(stream_fps).k = "ZeroDivisionError"
                           THEN "aborted"
                           ELSE "reading"
    /\ lastOp' = "stream_begin"
    /\ UNCHANGED << envVars, builtVars, flowVars, inst, resolverVars,
                    instanceVars, readerVars, sinkq, produced, lastRead,
                    last_msg, playing_fault, stopped, abuf, live, rframe,
                    rsnap, pcs, peer_connections, cleanup, closing,
                    resp_status, resp_image, req_quality, used_quality, reads,
                    socket_exists, status_response, frame_read, stream_status,
                    req_fps, stream_fps, parts, sleeps, stream_req_quality,
                    stream_quality,
                    track_next, video_frame,
                    timers,
                    call,
                    last_bus,
                    getcam, camera_lock, cameras,
                    yielded >>

\* mutant: the part is yielded whatever imencode returned
MjpegPassIgnoresRet(r, enc) ==
    IF r = "frame"
    THEN [ ret |-> enc,
           part |-> << "--frame\r\n", "Content-Type: image/jpeg\r\n\r\n",
                       "jpeg", "\r\n" >> ]
    ELSE [ ret |-> FALSE, part |-> << >> ]

\* the body of the while loop before the sleep. r: what camera.read()
\* returned; enc: what imencode returns for a frame. part: the pieces of
\* the chunk yielded, empty when nothing is yielded
MjpegPass(r, enc) ==
    IF r = "frame" /\ enc
    THEN [ ret |-> TRUE,
           part |-> << "--frame\r\n", "Content-Type: image/jpeg\r\n\r\n",
                       "jpeg", "\r\n" >> ]
    ELSE [ ret |-> r = "frame" /\ enc, part |-> << >> ]

\* one pass of the loop up to the sleep: read, encode, yield a part
StreamRead ==
    /\ stream = "reading"
    /\ \E r \in CameraReadResults, enc \in BOOLEAN :
          LET y == MjpegPass(r, enc)
          IN  /\ frame_read' = r
              /\ yielded' = y
              /\ parts' = IF y.part # << >> /\ parts < MaxParts
                          THEN parts + 1
                          ELSE parts
    /\ stream' = "sleeping"
    /\ lastOp' = "stream_read"
    /\ UNCHANGED << envVars, builtVars, flowVars, inst, resolverVars,
                    instanceVars, readerVars, sinkq, produced, lastRead,
                    last_msg, playing_fault, stopped, abuf, live, rframe,
                    rsnap, pcs, peer_connections, cleanup, closing,
                    resp_status, resp_image, req_quality, used_quality, reads,
                    socket_exists, status_response, camera_reader,
                    stream_status, req_fps, stream_fps, sleeps,
                    stream_req_quality, stream_quality,
                    track_next, video_frame,
                    timers,
                    call,
                    last_bus,
                    getcam, camera_lock, cameras >>

\* await asyncio.sleep(period) returns after at least one period
StreamSleep ==
    /\ stream = "sleeping"
    /\ sleeps < MaxParts
    /\ sleeps' = sleeps + 1
    /\ stream' = "reading"
    /\ lastOp' = "stream_sleep"
    /\ UNCHANGED << envVars, builtVars, flowVars, inst, resolverVars,
                    instanceVars, readerVars, sinkq, produced, lastRead,
                    last_msg, playing_fault, stopped, abuf, live, rframe,
                    rsnap, pcs, peer_connections, cleanup, closing,
                    resp_status, resp_image, req_quality, used_quality, reads,
                    socket_exists, status_response, camera_reader, frame_read,
                    stream_status, req_fps, stream_fps, parts,
                    stream_req_quality, stream_quality,
                    track_next, video_frame,
                    timers,
                    call,
                    last_bus,
                    getcam, camera_lock, cameras,
                    yielded >>

\* the client closes the connection and the generator is dropped
StreamClose ==
    /\ stream # "none"
    /\ stream' = "none"
    /\ lastOp' = "stream_close"
    /\ UNCHANGED << envVars, builtVars, flowVars, inst, resolverVars,
                    instanceVars, readerVars, sinkq, produced, lastRead,
                    last_msg, playing_fault, stopped, abuf, live, rframe,
                    rsnap, pcs, peer_connections, cleanup, closing,
                    resp_status, resp_image, req_quality, used_quality, reads,
                    socket_exists, status_response, camera_reader, frame_read,
                    stream_status, req_fps, stream_fps, parts, sleeps,
                    stream_req_quality, stream_quality,
                    track_next, video_frame,
                    timers,
                    call,
                    last_bus,
                    getcam, camera_lock, cameras,
                    yielded >>

\* an instance whose lifecycle plays no part
InitCamera ==
    /\ Init
    /\ cam_path = "imx708"
    /\ ~ignores_term

SpecSnapshot ==
    InitCamera /\ [][
        \/ GetCameraFrameOn(QualityInputs, 0..warmup_reads)
        \/ SocketChange
    ]_vars

\* both endpoints that take a quality parameter; the stream is requested
\* with the default fps
SpecQuality ==
    InitCamera /\ [][
        \/ GetCameraFrameOn(QualityInputs, { 0, 1 })
        \/ StreamOpenOn(QualityInputs, { Num(100) })
        \/ StreamClose
        \/ SocketChange
    ]_vars

SpecStream ==
    InitCamera /\ [][
        \/ StreamOpenOn(QualityInputs, FpsInputs)
        \/ StreamBegin
        \/ StreamRead
        \/ StreamSleep
        \/ StreamClose
        \/ SocketChange
    ]_vars

SpecStatus ==
    Init /\ [][
        \/ Start
        \/ Pause
        \/ Stop
        \/ SocketChange
        \/ GetCameraStatus
    ]_vars

(***************************************************************************)
(* read_frame() on the bytes of a buffer                                   *)
(***************************************************************************)
\* self.resolution: width and height of camera_specs.default_resolution;
\* small stand-ins for the resolutions of the three camera classes
DefaultResolution(specs) ==
    IF specs = "ReachyMiniWirelessCamSpecs" THEN << MaxDim, MaxDim >>
    ELSE IF specs = "ArducamSpecs" THEN << MaxDim, 1 >>
         ELSE << 1, MaxDim >>

Resolution == DefaultResolution(camera_specs)

\* bytes of one BGR frame of the configured resolution
FrameBytes == Resolution[1] * Resolution[2] * 3

Contents == 1..MaxFrames

NoFrame == [ k |-> "none", len |-> 0, data |-> 0, ref |-> FALSE ]

\* mutant: the buffer is mapped and its memory is used in place
ExtractMapped(c) == [ data |-> c, ref |-> TRUE ]

\* buf.extract_dup(0, buf.get_size()): a new block holding a copy of the bytes
ExtractDup(c) == [ data |-> c, ref |-> FALSE ]

\* mutant: the flat array is returned without the reshape
FrameFromBufferFlat(size, d, w, h) ==
    [ k |-> "array", len |-> size, data |-> d.data, ref |-> d.ref ]

\* np.frombuffer(data, dtype=np.uint8).reshape((height, width, 3)): reshape
\* raises ValueError unless the array has height * width * 3 elements
FrameFromBuffer(size, d, w, h) ==
    IF size = h * w * 3
    THEN [ k |-> "array", len |-> size, data |-> d.data, ref |-> d.ref ]
    ELSE [ k |-> "ValueError", len |-> 0, data |-> 0, ref |-> FALSE ]

\* what the caller finds in a frame it holds: its own bytes, or those of the
\* live buffer it refers to
FrameContents(f, mem) == IF f.ref THEN mem ELSE f.data

\* the graph delivers a buffer of some size to the appsink (drop=True: it
\* replaces the one held)
BufferArrives ==
    /\ phase = "built"
    /\ pipeline_sender = "PLAYING"
    /\ appsink # "None"
    /\ \E n \in { 0, FrameBytes - 1, FrameBytes, FrameBytes + 1 },
          c \in Contents :
          abuf' = [ full |-> TRUE, size |-> n, data |-> c ]
    /\ lastOp' = "produce"
    /\ UNCHANGED << envVars, builtVars, flowVars, inst, resolverVars,
                    readerVars, phase, raised, cam_path, camera_specs,
                    watch_sender, watch_receiver, rpicam_proc, proc, signals,
                    appsink, sinkq, produced, lastRead, last_msg,
                    playing_fault, stopped, stream, stream_status, req_fps,
                    stream_fps, parts, sleeps, stream_req_quality,
                    stream_quality, resp_status, resp_image, req_quality,
                    used_quality, reads, socket_exists, camera_reader,
                    frame_read, status_response, pcs, peer_connections,
                    cleanup, closing, pipeline_sender, pipeline_receiver,
                    live, rframe, rsnap,
                    track_next, video_frame,
                    timers,
                    call,
                    last_bus,
                    getcam, camera_lock, cameras,
                    yielded >>

\* read_frame()
ReadFrameBytes ==
    /\ phase = "built"
    /\ IF appsink = "None" \/ ~Started(pipeline_sender) \/ ~abuf.full
       THEN /\ rframe' = NoFrame
            /\ UNCHANGED << abuf, live, rsnap >>
       ELSE /\ rframe' = FrameFromBuffer(abuf.size, ExtractDup(abuf.data),
                                         Resolution[1], Resolution[2])
            /\ rsnap' = abuf.data
            /\ live' = abuf.data
            /\ abuf' = [ full |-> FALSE, size |-> 0, data |-> 0 ]
    /\ lastOp' = "read_frame"
    /\ UNCHANGED << envVars, builtVars, flowVars, inst, resolverVars,
                    readerVars, phase, raised, cam_path, camera_specs,
                    watch_sender, watch_receiver, rpicam_proc, proc, signals,
                    appsink, sinkq, produced, lastRead, last_msg,
                    playing_fault, stopped, stream, stream_status, req_fps,
                    stream_fps, parts, sleeps, stream_req_quality,
                    stream_quality, resp_status, resp_image, req_quality,
                    used_quality, reads, socket_exists, camera_reader,
                    frame_read, status_response, pcs, peer_connections,
                    cleanup, closing, pipeline_sender, pipeline_receiver,
                    track_next, video_frame,
                    timers,
                    call,
                    last_bus,
                    getcam, camera_lock, cameras,
                    yielded >>

\* the sample is released when read_frame() returns; the producer takes the
\* buffer's memory back from its pool and writes the next picture into it
ProducerWrite ==
    /\ phase = "built"
    /\ pipeline_sender = "PLAYING"
    /\ live # 0
    /\ \E c \in Contents \ { live } : live' = c
    /\ lastOp' = "producer_write"
    /\ UNCHANGED << envVars, builtVars, flowVars, inst, resolverVars,
                    readerVars, phase, raised, cam_path, camera_specs,
                    watch_sender, watch_receiver, rpicam_proc, proc, signals,
                    appsink, sinkq, produced, lastRead, last_msg,
                    playing_fault, stopped, stream, stream_status, req_fps,
                    stream_fps, parts, sleeps, stream_req_quality,
                    stream_quality, resp_status, resp_image, req_quality,
                    used_quality, reads, socket_exists, camera_reader,
                    frame_read, status_response, pcs, peer_connections,
                    cleanup, closing, pipeline_sender, pipeline_receiver,
                    abuf, rframe, rsnap,
                    track_next, video_frame,
                    timers,
                    call,
                    last_bus,
                    getcam, camera_lock, cameras,
                    yielded >>

SpecBuffer ==
    Init /\ [][
        \/ Start
        \/ BufferArrives
        \/ ReadFrameBytes
        \/ ProducerWrite
    ]_vars

(***************************************************************************)
(* aiortc endpoint: the registry of peer connections                       *)
(***************************************************************************)
PeerIds == 1..NumPeers

\* if pc.connectionState in ("failed", "closed", "disconnected")
Terminal == { "failed", "closed", "disconnected" }

\* RTCPeerConnection.close(): nothing on a closed connection; otherwise the
\* connection becomes closed and connectionstatechange is emitted once more
PcClose(p) ==
    IF p.is_closed THEN p
    ELSE [ p EXCEPT !.is_closed = TRUE, !.state = "closed", !.pending = @ + 1 ]

\* mutant: the handler drops the connection from the registry without
\* closing it
OnConnectionStateChangeNoClose(p) ==
    IF p.state \in Terminal THEN [ pc |-> p, discard |-> TRUE ]
    ELSE [ pc |-> p, discard |-> FALSE ]

\* on_connectionstatechange: it looks at the state the connection has when
\* it runs
OnConnectionStateChange(p) ==
    IF p.state \in Terminal THEN [ pc |-> PcClose(p), discard |-> TRUE ]
    ELSE [ pc |-> p, discard |-> FALSE ]

\* what the negotiation of an offer comes to: the answer is returned, the
\* body has no "sdp" or "type" key (KeyError), or setRemoteDescription
\* rejects the description
OfferOutcomes == { "answered", "KeyError", "rejected" }

\* POST /webrtc/offer: the connection is created and registered and the
\* track is added; the negotiation that follows leaves the connection and
\* the registry alone whether it returns the answer or raises. Requests are
\* served until the shutdown begins.
WebrtcOffer(i) ==
    /\ cleanup = "idle"
    /\ pcs[i].state = "unborn"
    /\ \E o \in OfferOutcomes :
          pcs' = [ pcs EXCEPT ![i].state = "new", ![i].offer = o ]
    /\ peer_connections' = peer_connections \cup { i }
    /\ lastOp' = "webrtc_offer"
    /\ UNCHANGED << envVars, builtVars, flowVars, inst, resolverVars,
                    instanceVars, readerVars, sinkq, produced, lastRead,
                    last_msg, playing_fault, stopped, abuf, live, rframe,
                    rsnap, stream, stream_status, req_fps, stream_fps, parts,
                    sleeps, stream_req_quality, stream_quality, resp_status,
                    resp_image, req_quality, used_quality, reads,
                    socket_exists, camera_reader, frame_read, status_response,
                    cleanup, closing,
                    track_next, video_frame,
                    timers,
                    call,
                    last_bus,
                    getcam, camera_lock, cameras,
                    yielded >>

\* the transport changes the state of an open connection that has a remote
\* description; the event schedules one run of the handler
StateChange(i) ==
    /\ ~pcs[i].is_closed
    /\ pcs[i].offer = "answered"
    /\ pcs[i].pending < MaxPending
    /\ \E t \in { << "new", "connecting" >>, << "connecting", "connected" >>,
                 << "connecting", "failed" >>, << "connected", "disconnected" >>,
                 << "disconnected", "connected" >>,
                 << "disconnected", "failed" >> } :
          /\ t[1] = pcs[i].state
          /\ pcs' = [ pcs EXCEPT ![i].state = t[2], ![i].pending = @ + 1 ]
    /\ lastOp' = "connectionstatechange"
    /\ UNCHANGED << envVars, builtVars, flowVars, inst, resolverVars,
                    instanceVars, readerVars, sinkq, produced, lastRead,
                    last_msg, playing_fault, stopped, abuf, live, rframe,
                    rsnap, stream, stream_status, req_fps, stream_fps, parts,
                    sleeps, stream_req_quality, stream_quality, resp_status,
                    resp_image, req_quality, used_quality, reads,
                    socket_exists, camera_reader, frame_read, status_response,
                    peer_connections, cleanup, closing,
                    track_next, video_frame,
                    timers,
                    call,
                    last_bus,
                    getcam, camera_lock, cameras,
                    yielded >>

\* one scheduled run of on_connectionstatechange
Handler(i) ==
    /\ pcs[i].pending > 0
    /\ LET h == OnConnectionStateChange([ pcs[i] EXCEPT !.pending = @ - 1 ])
       IN  /\ pcs' = [ pcs EXCEPT ![i] = h.pc ]
           /\ peer_connections' = IF h.discard THEN peer_connections \ { i }
                                  ELSE peer_connections
    /\ lastOp' = "on_connectionstatechange"
    /\ UNCHANGED << envVars, builtVars, flowVars, inst, resolverVars,
                    instanceVars, readerVars, sinkq, produced, lastRead,
                    last_msg, playing_fault, stopped, abuf, live, rframe,
                    rsnap, stream, stream_status, req_fps, stream_fps, parts,
                    sleeps, stream_req_quality, stream_quality, resp_status,
                    resp_image, req_quality, used_quality, reads,
                    socket_exists, camera_reader, frame_read, status_response,
                    cleanup, closing,
                    track_next, video_frame,
                    timers,
                    call,
                    last_bus,
                    getcam, camera_lock, cameras,
                    yielded >>

\* cleanup_peer_connections, up to the await: one close() per registered
\* connection is handed to asyncio.gather
CleanupBegin ==
    /\ cleanup = "idle"
    /\ cleanup' = "closing"
    /\ closing' = peer_connections
    /\ lastOp' = "cleanup_begin"
    /\ UNCHANGED << envVars, builtVars, flowVars, inst, resolverVars,
                    instanceVars, readerVars, sinkq, produced, lastRead,
                    last_msg, playing_fault, stopped, abuf, live, rframe,
                    rsnap, stream, stream_status, req_fps, stream_fps, parts,
                    sleeps, stream_req_quality, stream_quality, resp_status,
                    resp_image, req_quality, used_quality, reads,
                    socket_exists, camera_reader, frame_read, status_response,
                    pcs, peer_connections,
                    track_next, video_frame,
                    timers,
                    call,
                    last_bus,
                    getcam, camera_lock, cameras,
                    yielded >>

\* one of the gathered close() calls runs
CleanupClose(i) ==
    /\ cleanup = "closing"
    /\ i \in closing
    /\ pcs' = [ pcs EXCEPT ![i] = PcClose(pcs[i]) ]
    /\ closing' = closing \ { i }
    /\ lastOp' = "cleanup_close"
    /\ UNCHANGED << envVars, builtVars, flowVars, inst, resolverVars,
                    instanceVars, readerVars, sinkq, produced, lastRead,
                    last_msg, playing_fault, stopped, abuf, live, rframe,
                    rsnap, stream, stream_status, req_fps, stream_fps, parts,
                    sleeps, stream_req_quality, stream_quality, resp_status,
                    resp_image, req_quality, used_quality, reads,
                    socket_exists, camera_reader, frame_read, status_response,
                    peer_connections, cleanup,
                    track_next, video_frame,
                    timers,
                    call,
                    last_bus,
                    getcam, camera_lock, cameras,
                    yielded >>

\* gather has returned: peer_connections.clear()
CleanupEnd ==
    /\ cleanup = "closing"
    /\ closing = {}
    /\ peer_connections' = {}
    /\ cleanup' = "done"
    /\ lastOp' = "cleanup_peer_connections"
    /\ UNCHANGED << envVars, builtVars, flowVars, inst, resolverVars,
                    instanceVars, readerVars, sinkq, produced, lastRead,
                    last_msg, playing_fault, stopped, abuf, live, rframe,
                    rsnap, stream, stream_status, req_fps, stream_fps, parts,
                    sleeps, stream_req_quality, stream_quality, resp_status,
                    resp_image, req_quality, used_quality, reads,
                    socket_exists, camera_reader, frame_read, status_response,
                    pcs, closing,
                    track_next, video_frame,
                    timers,
                    call,
                    last_bus,
                    getcam, camera_lock, cameras,
                    yielded >>

SpecPeers ==
    InitCamera /\ [][
        \/ \E i \in PeerIds :
              \/ WebrtcOffer(i)
              \/ StateChange(i)
              \/ Handler(i)
              \/ CleanupClose(i)
        \/ CleanupBegin
        \/ CleanupEnd
    ]_vars

(***************************************************************************)
(* aiortc endpoint: the frame producer of a negotiated session             *)
(***************************************************************************)
\* mutant: the frame read is handed to VideoFrame.from_ndarray as it is
CameraTrackRecvNoBlack(frame, pts, w, h) ==
    IF frame.k = "ValueError" THEN [ k |-> "ValueError" ]
    ELSE IF frame.k = "none" THEN [ k |-> "AttributeError" ]
         ELSE [ k |-> "VideoFrame", black |-> FALSE, width |-> w,
                height |-> h, pts |-> pts ]

\* CameraTrack.recv after next_timestamp and _read_frame. frame: what
\* _read_frame returned or raised; pts: the timestamp taken; w, h: the
\* resolution of the instance. np.zeros((720, 1280, 3)) stands in for a
\* missing frame.
CameraTrackRecv(frame, pts, w, h) ==
    IF frame.k = "ValueError" THEN [ k |-> "ValueError" ]
    ELSE IF frame.k = "none"
         THEN [ k |-> "VideoFrame", black |-> TRUE, width |-> 1280,
                height |-> 720, pts |-> pts ]
         ELSE [ k |-> "VideoFrame", black |-> FALSE, width |-> w,
                height |-> h, pts |-> pts ]

\* one call of recv(): the timestamp, then _read_frame (None when the daemon
\* holds no GstWebRTC, else read_frame()), then the VideoFrame
Recv ==
    /\ track_next < MaxRecv
    /\ track_next' = track_next + 1
    /\ LET called == phase = "built"
           got == /\ called
                  /\ appsink # "None"
                  /\ Started(pipeline_sender)
                  /\ abuf.full
           frame == IF got
                    THEN FrameFromBuffer(abuf.size, ExtractDup(abuf.data),
                                         Resolution[1], Resolution[2])
                    ELSE NoFrame
       IN  /\ rframe' = IF called THEN frame ELSE rframe
           /\ video_frame' = CameraTrackRecv(frame, track_next,
                                             Resolution[1], Resolution[2])
           /\ rsnap' = IF got THEN abuf.data ELSE rsnap
           /\ live' = IF got THEN abuf.data ELSE live
           /\ abuf' = IF got THEN [ full |-> FALSE, size |-> 0, data |-> 0 ]
                      ELSE abuf
    /\ lastOp' = "recv"
    /\ UNCHANGED << envVars, builtVars, flowVars, inst, resolverVars,
                    instanceVars, readerVars, sinkq, produced, lastRead,
                    last_msg, playing_fault, stopped, stream, stream_status,
                    req_fps, stream_fps, parts, sleeps, stream_req_quality,
                    stream_quality, resp_status, resp_image, req_quality,
                    used_quality, reads, socket_exists, camera_reader,
                    frame_read, status_response, pcs, peer_connections,
                    cleanup, closing,
                    timers,
                    call,
                    last_bus,
                    getcam, camera_lock, cameras,
                    yielded >>

\* a daemon that builds its GstWebRTC (or fails to, with no camera) while a
\* session's track is being read
\* the daemon before its GstWebRTC is constructed, with a camera the
\* constructor accepts or with none
InitTrack ==
    /\ InitConstruct
    /\ devices \in LifecycleDevices \cup { << >> }
    /\ rpicam_installed = TRUE
    /\ missing = {}
    /\ ignores_term = FALSE

SpecTrack ==
    InitTrack /\ [][
        \/ Construct
        \/ Start
        \/ Stop
        \/ BufferArrives
        \/ Recv
    ]_vars

(***************************************************************************)
(* The latency dump armed by start() and by consumer-added                 *)
(***************************************************************************)
\* _consumer_added: webrtcsink has taken a consumer; the graph is written to
\* a dot file and one more latency dump is armed
ConsumerAdded ==
    /\ phase = "built"
    /\ pipeline_sender = "PLAYING"
    /\ timers' = Armed(timers)
    /\ lastOp' = "_consumer_added"
    /\ UNCHANGED << envVars, builtVars, flowVars, inst, resolverVars,
                    readerVars, sinkq, produced, lastRead, last_msg,
                    playing_fault, stopped, instanceVars, socket_exists,
                    camera_reader, resp_status, resp_image, req_quality,
                    used_quality, reads, stream, stream_status, req_fps,
                    stream_fps, parts, sleeps, status_response, frame_read,
                    stream_req_quality, stream_quality, abuf, live, rframe,
                    rsnap, pcs, peer_connections, cleanup, closing,
                    track_next, video_frame,
                    call,
                    last_bus,
                    getcam, camera_lock, cameras,
                    yielded >>

\* mutant: the dump sets the sender pipeline to PLAYING before it queries
DumpLatencyRestarts ==
    /\ phase = "built"
    /\ timers > 0
    /\ timers' = timers - 1
    /\ pipeline_sender' = "PLAYING"
    /\ lastOp' = "_dump_latency"
    /\ UNCHANGED << envVars, builtVars, flowVars, inst, resolverVars,
                    readerVars, sinkq, produced, lastRead, last_msg,
                    playing_fault, stopped, phase, raised, cam_path,
                    camera_specs, pipeline_receiver, watch_sender,
                    watch_receiver, rpicam_proc, proc, signals, appsink,
                    socket_exists, camera_reader, resp_status, resp_image,
                    req_quality, used_quality, reads, stream, stream_status,
                    req_fps, stream_fps, parts, sleeps, status_response,
                    frame_read, stream_req_quality, stream_quality, abuf,
                    live, rframe, rsnap, pcs, peer_connections, cleanup,
                    closing, track_next, video_frame,
                    call,
                    last_bus,
                    getcam, camera_lock, cameras,
                    yielded >>

\* _dump_latency, run once by the main loop for each timeout armed (it
\* returns None, so the source is removed): a latency query on the sender
\* pipeline and a log line
DumpLatency ==
    /\ phase = "built"
    /\ timers > 0
    /\ timers' = timers - 1
    /\ lastOp' = "_dump_latency"
    /\ UNCHANGED << envVars, builtVars, flowVars, inst, resolverVars,
                    readerVars, sinkq, produced, lastRead, last_msg,
                    playing_fault, stopped, instanceVars, socket_exists,
                    camera_reader, resp_status, resp_image, req_quality,
                    used_quality, reads, stream, stream_status, req_fps,
                    stream_fps, parts, sleeps, status_response, frame_read,
                    stream_req_quality, stream_quality, abuf, live, rframe,
                    rsnap, pcs, peer_connections, cleanup, closing,
                    track_next, video_frame,
                    call,
                    last_bus,
                    getcam, camera_lock, cameras,
                    yielded >>

SpecLatency ==
    Init /\ [][
        \/ Start
        \/ Pause
        \/ Stop
        \/ Produce
        \/ ProcExit
        \/ ConsumerAdded
        \/ DumpLatency
    ]_vars

(***************************************************************************)
(* Lifecycle calls made by several threads at once                         *)
(***************************************************************************)
\* a thread enters start(), pause() or stop() and makes the call's first
\* set_state, on the sender pipeline (going to NULL flushes the appsink)
CallSender(t) ==
    /\ phase = "built"
    /\ call[t].pc = "idle"
    /\ \E op \in { "start", "pause", "stop" } :
          /\ pipeline_sender' = CASE op = "start" -> "PLAYING"
                                  [] op = "pause" -> "PAUSED"
                                  [] op = "stop" -> "NULL"
          /\ sinkq' = IF op = "stop" THEN << >> ELSE sinkq
          /\ call' = [ call EXCEPT ![t] = [ op |-> op, pc |-> "receiver" ] ]
    /\ lastOp' = "set_state_sender"
    /\ UNCHANGED << envVars, builtVars, flowVars, inst, resolverVars,
                    readerVars, produced, lastRead, last_msg, playing_fault,
                    phase, raised, cam_path, camera_specs, pipeline_receiver,
                    watch_sender, watch_receiver, rpicam_proc, proc, signals,
                    appsink, stopped, socket_exists, camera_reader,
                    resp_status, resp_image, req_quality, used_quality, reads,
                    stream, stream_status, req_fps, stream_fps, parts, sleeps,
                    status_response, frame_read, stream_req_quality,
                    stream_quality, abuf, live, rframe, rsnap, pcs,
                    peer_connections, cleanup, closing, track_next,
                    video_frame, timers,
                    last_bus,
                    getcam, camera_lock, cameras,
                    yielded >>

\* the call's second set_state, on the receiver pipeline; pause() returns
\* after it
CallReceiver(t) ==
    /\ call[t].pc = "receiver"
    /\ pipeline_receiver' = CASE call[t].op = "start" -> "PLAYING"
                              [] call[t].op = "pause" -> "PAUSED"
                              [] call[t].op = "stop" -> "NULL"
    /\ call' = [ call EXCEPT ![t].pc =
                    IF call[t].op = "pause" THEN "idle" ELSE "tail" ]
    /\ raised' = IF call[t].op = "pause" THEN "none" ELSE raised
    /\ lastOp' = "set_state_receiver"
    /\ UNCHANGED << envVars, builtVars, flowVars, inst, resolverVars,
                    readerVars, produced, lastRead, last_msg, playing_fault,
                    phase, cam_path, camera_specs, pipeline_sender,
                    watch_sender, watch_receiver, rpicam_proc, proc, signals,
                    appsink, sinkq, stopped, socket_exists, camera_reader,
                    resp_status, resp_image, req_quality, used_quality, reads,
                    stream, stream_status, req_fps, stream_fps, parts, sleeps,
                    status_response, frame_read, stream_req_quality,
                    stream_quality, abuf, live, rframe, rsnap, pcs,
                    peer_connections, cleanup, closing, track_next,
                    video_frame, timers,
                    last_bus,
                    getcam, camera_lock, cameras,
                    yielded >>

\* the rest of the call: start() arms the latency dump, stop() runs
\* _cleanup_rpicam; the call returns
CallReturn(t) ==
    /\ call[t].pc = "tail"
    /\ call' = [ call EXCEPT ![t].pc = "idle" ]
    /\ IF call[t].op = "start"
       THEN /\ timers' = Armed(timers)
            /\ raised' = "none"
            /\ UNCHANGED << rpicam_proc, proc, signals, stopped >>
       ELSE LET self == [ raised |-> "none", rpicam_proc |-> rpicam_proc,
                          proc |-> proc, signals |-> << >> ]
                s == CleanupRpicam(self, ignores_term)
            IN  /\ rpicam_proc' = s.rpicam_proc
                /\ proc' = s.proc
                /\ signals' = s.signals
                /\ raised' = s.raised
                /\ stopped' = TRUE
                /\ timers' = timers
    /\ lastOp' = call[t].op
    /\ UNCHANGED << envVars, builtVars, flowVars, inst, resolverVars,
                    readerVars, produced, lastRead, last_msg, playing_fault,
                    phase, cam_path, camera_specs, pipeline_sender,
                    pipeline_receiver, watch_sender, watch_receiver, appsink,
                    sinkq, socket_exists, camera_reader, resp_status,
                    resp_image, req_quality, used_quality, reads, stream,
                    stream_status, req_fps, stream_fps, parts, sleeps,
                    status_response, frame_read, stream_req_quality,
                    stream_quality, abuf, live, rframe, rsnap, pcs,
                    peer_connections, cleanup, closing, track_next,
                    video_frame,
                    last_bus,
                    getcam, camera_lock, cameras,
                    yielded >>

SpecThreads ==
    Init /\ [][
        \E t \in 1..NumThreads :
            \/ CallSender(t)
            \/ CallReceiver(t)
            \/ CallReturn(t)
    ]_vars

(***************************************************************************)
(* Shutdown: stop() followed by __del__()                                  *)
(***************************************************************************)
SpecShutdown ==
    Init /\ [][
        \/ Start
        \/ Stop
        \/ ProcExit
        \/ Del
    ]_vars

(***************************************************************************)
(* _get_camera entered by several threads                                  *)
(***************************************************************************)
\* the test before the lock: a stored reader is returned at once, else the
\* thread goes on to take _camera_lock
GetCameraCheck(t) ==
    /\ getcam[t].pc \in { "idle", "returned", "raised" }
    /\ getcam' = [ getcam EXCEPT ![t] =
                      IF camera_reader # "None"
                      THEN [ pc |-> "returned", ret |-> camera_reader,
                             reads |-> 0, warm |-> FALSE ]
                      ELSE [ pc |-> "lock", ret |-> "", reads |-> 0,
                             warm |-> FALSE ] ]
    /\ lastOp' = "_get_camera"
    /\ UNCHANGED << envVars, builtVars, flowVars, inst, resolverVars,
                    instanceVars, readerVars, sinkq, produced, lastRead,
                    last_msg, playing_fault, stopped, socket_exists,
                    camera_reader, resp_status, resp_image, req_quality,
                    used_quality, reads, stream, stream_status, req_fps,
                    stream_fps, parts, sleeps, status_response, frame_read,
                    stream_req_quality, stream_quality, abuf, live, rframe,
                    rsnap, pcs, peer_connections, cleanup, closing,
                    track_next, video_frame, timers, call, last_bus,
                    camera_lock, cameras,
                    yielded >>

\* mutant: the lock is not taken
GetCameraAcquireNoLock(t) ==
    /\ getcam[t].pc = "lock"
    /\ LET g == GetCamera(camera_reader, socket_exists, 0)
       IN  IF camera_reader # "None"
           THEN /\ getcam' = [ getcam EXCEPT ![t].pc = "returned",
                                             ![t].ret = camera_reader ]
                /\ UNCHANGED << camera_lock, cameras >>
           ELSE IF g.status # 0
                THEN /\ getcam' = [ getcam EXCEPT ![t].pc = "raised",
                                                  ![t].ret = "503" ]
                     /\ UNCHANGED << camera_lock, cameras >>
                ELSE /\ getcam' = [ getcam EXCEPT ![t].pc = "warmup" ]
                     /\ camera_lock' = camera_lock
                     /\ cameras' = cameras + 1
    /\ lastOp' = "_get_camera"
    /\ UNCHANGED << envVars, builtVars, flowVars, inst, resolverVars,
                    instanceVars, readerVars, sinkq, produced, lastRead,
                    last_msg, playing_fault, stopped, socket_exists,
                    camera_reader, resp_status, resp_image, req_quality,
                    used_quality, reads, stream, stream_status, req_fps,
                    stream_fps, parts, sleeps, status_response, frame_read,
                    stream_req_quality, stream_quality, abuf, live, rframe,
                    rsnap, pcs, peer_connections, cleanup, closing,
                    track_next, video_frame, timers, call, last_bus,
                    yielded >>

\* with _camera_lock: the lock is taken once it is free; the test again; the
\* socket test, which raises 503 (leaving the with block releases the lock);
\* GStreamerCamera() and open()
GetCameraAcquire(t) ==
    /\ getcam[t].pc = "lock"
    /\ camera_lock = 0
    /\ LET g == GetCamera(camera_reader, socket_exists, 0)
       IN  IF camera_reader # "None"
           THEN /\ getcam' = [ getcam EXCEPT ![t].pc = "returned",
                                             ![t].ret = camera_reader ]
                /\ UNCHANGED << camera_lock, cameras >>
           ELSE IF g.status # 0
                THEN /\ getcam' = [ getcam EXCEPT ![t].pc = "raised",
                                                  ![t].ret = "503" ]
                     /\ UNCHANGED << camera_lock, cameras >>
                ELSE /\ getcam' = [ getcam EXCEPT ![t].pc = "warmup" ]
                     /\ camera_lock' = t
                     /\ cameras' = cameras + 1
    /\ lastOp' = "_get_camera"
    /\ UNCHANGED << envVars, builtVars, flowVars, inst, resolverVars,
                    instanceVars, readerVars, sinkq, produced, lastRead,
                    last_msg, playing_fault, stopped, socket_exists,
                    camera_reader, resp_status, resp_image, req_quality,
                    used_quality, reads, stream, stream_status, req_fps,
                    stream_fps, parts, sleeps, status_response, frame_read,
                    stream_req_quality, stream_quality, abuf, live, rframe,
                    rsnap, pcs, peer_connections, cleanup, closing,
                    track_next, video_frame, timers, call, last_bus,
                    yielded >>

\* the warm-up reads (first: the read that returned a frame, 0 = none did),
\* the reader is stored in app state, the lock is released and the stored
\* reader is returned
GetCameraStore(t) ==
    /\ getcam[t].pc = "warmup"
    /\ \E first \in 0..warmup_reads :
          LET g == GetCamera("None", TRUE, first)
          IN  /\ camera_reader' = g.reader
              /\ getcam' = [ getcam EXCEPT ![t] =
                                [ pc |-> "returned", ret |-> g.reader,
                                  reads |-> g.reads, warm |-> first # 0 ] ]
    /\ camera_lock' = IF camera_lock = t THEN 0 ELSE camera_lock
    /\ lastOp' = "_get_camera"
    /\ UNCHANGED << envVars, builtVars, flowVars, inst, resolverVars,
                    instanceVars, readerVars, sinkq, produced, lastRead,
                    last_msg, playing_fault, stopped, socket_exists,
                    resp_status, resp_image, req_quality, used_quality, reads,
                    stream, stream_status, req_fps, stream_fps, parts, sleeps,
                    status_response, frame_read, stream_req_quality,
                    stream_quality, abuf, live, rframe, rsnap, pcs,
                    peer_connections, cleanup, closing, track_next,
                    video_frame, timers, call, last_bus, cameras,
                    yielded >>

SpecGetCamera ==
    InitCamera /\ [][
        \/ \E t \in 1..NumThreads :
              \/ GetCameraCheck(t)
              \/ GetCameraAcquire(t)
              \/ GetCameraStore(t)
        \/ SocketChange
    ]_vars

(***************************************************************************)
(* Properties                                                              *)
(***************************************************************************)
BothNull == pipeline_sender = "NULL" /\ pipeline_receiver = "NULL"

\* C1: once stop() has been called, no later start() or pause() moves the
\* pipelines out of the stopped (NULL) state.
C1_StoppedIsTerminal == stopped => BothNull

\* C2: an end-of-stream or error message delivered while the pipeline is
\* PLAYING leaves the pipelines stopped and the encoder subprocess released,
\* and a read_frame() made next returns None.
C2_FaultForcesStopped ==
    [][ /\ (lastOp' = "_on_bus_message" /\ playing_fault')
            => (BothNull' /\ proc' # "running")
        /\ (lastOp = "_on_bus_message" /\ playing_fault /\ lastOp' = "read_frame")
            => lastRead' = 0 ]_vars

\* C3: a stop() that directly follows a completed stop() raises nothing and
\* leaves both pipelines NULL and the subprocess handle as the first call
\* left them.
C3_StopIdempotent ==
    [][ (lastOp = "stop" /\ lastOp' = "stop")
            => /\ raised' = "none"
               /\ BothNull /\ BothNull'
               /\ rpicam_proc' = rpicam_proc ]_vars

\* a second stop() on an rpicam instance: the handle was reset by the first
\* call and this call sent no signal
C3_Witness ==
    /\ lastOp = "stop"
    /\ cam_path = "imx708"
    /\ rpicam_proc = "None"
    /\ signals = << >>
    /\ proc = "exited"

\* C4: stop() always returns with both pipelines NULL and the encoder process
\* not running, raising nothing; SIGKILL is sent only after SIGTERM and only
\* to a process that did not exit on SIGTERM within the grace period.
C4_StopConverges ==
    lastOp = "stop" =>
        /\ BothNull
        /\ proc # "running"
        /\ raised = "none"
        /\ signals \in { << >>, << "SIGTERM" >>, << "SIGTERM", "SIGKILL" >> }
        /\ signals = << "SIGTERM", "SIGKILL" >> => ignores_term
        /\ signals = << "SIGTERM" >> => ~ignores_term

\* stop() on an instance whose encoder ignored SIGTERM and was killed
C4_Witness ==
    /\ lastOp = "stop"
    /\ ignores_term
    /\ signals = << "SIGTERM", "SIGKILL" >>
    /\ proc = "exited"
    /\ BothNull

\* C5: after stop() has returned, every later read_frame() returns None and
\* no subprocess of the instance is running.
C5_ReadAfterStop ==
    (stopped /\ lastOp = "read_frame") => (lastRead = 0 /\ proc # "running")

\* C6: whenever construction fails after the encoder subprocess was spawned,
\* the subprocess has been terminated by the time the error leaves __init__.
C6_FailedConstructionKillsEncoder == phase = "failed" => proc # "running"

\* C7: with an IMX708 resolved and rpicam-vid not installed, construction
\* fails with the rpicam-vid-not-found RuntimeError and no subprocess was
\* ever spawned (the handle is still None).
C7_MissingEncoderFailsBeforeSpawn ==
    (phase # "none" /\ resolved.cam_path = "imx708" /\ ~rpicam_installed) =>
        /\ phase = "failed"
        /\ raised = "RuntimeError"
        /\ rpicam_proc = "None"
        /\ proc = "absent"

\* construction attempted for an IMX708 with every element available but no
\* rpicam-vid binary
C7_Witness ==
    /\ phase = "failed"
    /\ resolved.cam_path = "imx708"
    /\ ~rpicam_installed
    /\ missing = {}
    /\ raised = "RuntimeError"
    /\ proc = "absent"

\* the name of the device carries the class marker
NameMatch(c, d) == c \in d.name

\* the device carries the marker and has a V4L2 path, or is an IMX708
Usable(c, d) == c \in d.name /\ (d.path # NoPath \/ c = "imx708")

\* position in cam_names of the earliest class some device satisfies P for
\* (0 when there is none)
EarliestClass(P(_, _), devs) ==
    LET ks == { k \in 1..Len(cam_names) :
                    \E i \in 1..Len(devs) : P(cam_names[k], devs[i]) }
    IN  IF ks = {} THEN 0 ELSE CHOOSE k \in ks : \A j \in ks : k <= j

\* C8 as stated: the resolver returns a device of the earliest class in
\* [Reachy, Arducam_12MP, imx708] whose marker some enumerated device's name
\* carries.
C8_FirstNameMatchWins ==
    monitor = "stopped" =>
        LET k == EarliestClass(NameMatch, devices)
        IN  k # 0 => /\ resolved.found
                     /\ resolved.cam_name = cam_names[k]
                     /\ NameMatch(cam_names[k], devices[resolved.index])

\* C8 (amended): the resolver returns a device of the earliest class in
\* [Reachy, Arducam_12MP, imx708] for which some enumerated device carries
\* the marker in its name and either has a V4L2 path or the class is imx708,
\* whatever the enumeration order; without such a device it finds nothing.
C8_FirstUsableMatchWins ==
    monitor = "stopped" =>
        LET k == EarliestClass(Usable, devices)
        IN  IF k = 0 THEN ~resolved.found
            ELSE /\ resolved.found
                 /\ resolved.cam_name = cam_names[k]
                 /\ Usable(cam_names[k], devices[resolved.index])

\* the second enumerated device wins over a first one of a later class
C8_Witness ==
    /\ monitor = "stopped"
    /\ Len(devices) = 2
    /\ Usable("imx708", devices[1])
    /\ resolved.found
    /\ resolved.index = 2
    /\ resolved.cam_name = "Reachy"

\* C9: when no enumerated device matches any class the resolver returns no
\* specs and __init__ raises before a pipeline, a bus watch, an appsink or a
\* subprocess exists.
C9_NoCameraFailsBeforeBuild ==
    (phase # "none" /\ EarliestClass(Usable, devices) = 0) =>
        /\ ~resolved.found
        /\ camera_specs = "None"
        /\ phase = "failed"
        /\ raised = "RuntimeError"
        /\ pipeline_sender = "absent"
        /\ pipeline_receiver = "absent"
        /\ ~watch_sender
        /\ ~watch_receiver
        /\ appsink = "None"
        /\ rpicam_proc = "None"
        /\ proc = "absent"

\* construction attempted with one enumerated device that is no known camera
C9_Witness ==
    /\ phase = "failed"
    /\ Len(devices) = 1
    /\ devices[1].name = {}
    /\ missing = {}
    /\ pipeline_sender = "absent"

\* C10: a read_frame() that returns a frame returns one of the frames the
\* producer delivered, whole; it was the latest delivered frame at the
\* instant of the pull, and it is not older than the latest frame delivered
\* before the call began.
C10_ReadReturnsLatest ==
    \A r \in Readers :
        (rpc[r] = "done" /\ rgot[r] # 0) =>
            /\ rgot[r] \in 1..produced
            /\ rgot[r] = rlatest[r]
            /\ rgot[r] >= rstart[r]

\* a reader got a frame delivered during its call while another reader was
\* inside read_frame() too
C10_Witness ==
    \E r \in Readers :
        /\ rpc[r] = "done"
        /\ rgot[r] >= 2
        /\ rstart[r] < rgot[r]
        /\ \E o \in Readers \ {r} : rpc[o] # "idle"

\* C11: read_frame() is non-destructive: a read_frame() that directly follows
\* one that returned a frame, with no frame delivered in between, returns
\* that same frame again.
C11_ReadIsNonDestructive ==
    [][ (lastOp = "read_frame" /\ lastRead # 0 /\ lastOp' = "read_frame")
            => lastRead' = lastRead ]_vars

\* C12: a read_frame() made while the producer has not delivered any frame
\* returns None, after waiting no longer than the 1 s timeout, and every
\* call that waits in try_pull_sample comes back.
C12_NoFrameReadTimesOut ==
    /\ [](\A r \in Readers :
            (rpc[r] = "done" /\ produced = 0)
                => (rgot[r] = 0 /\ rwait[r] <= pull_timeout))
    /\ \A r \in Readers : (rpc[r] = "pulling") ~> (rpc[r] = "done")

\* a reader came back with None after waiting the whole timeout, no frame
\* ever delivered
C12_Witness ==
    \E r \in Readers :
        /\ rpc[r] = "done"
        /\ produced = 0
        /\ rgot[r] = 0
        /\ rwait[r] = pull_timeout

\* C13: the frame sink never makes its producer wait: whatever the readers
\* do it holds at most one frame, it accepts the next frame at any time, and
\* the frame it holds is the newest one delivered (a held frame is replaced).
C13_FrameSinkNeverBlocks ==
    /\ Len(sinkq) <= 1
    /\ AppsinkAccepts(sinkq)
    /\ sinkq # << >> => Head(sinkq) = produced

\* a second frame arrived while the first, never read, was still held
C13_Witness ==
    /\ lastOp = "decode"
    /\ produced >= 2
    /\ lastRead = 0
    /\ sinkq = << produced >>

\* C14: in both builds the live-transport queue never holds more than one
\* buffer, never makes the tee wait, and a buffer arriving while it is full
\* takes the place of the queued one.
C14_LiveQueueDropsOldest ==
    /\ Len(webrtcq) <= 1
    /\ WebrtcQueueAccepts(webrtcq)
    /\ webrtcq # << >> => webrtcq = << teed >>

\* the tee pushed a buffer while the first one, never taken, was still queued
C14_Witness ==
    /\ lastOp = "tee"
    /\ teed >= 2
    /\ webrtc_last = 0
    /\ webrtcq = << teed >>

\* C15: whatever the recording client does, the recording sink takes every
\* queued buffer, so every frame of the camera ends up teed, rendered by the
\* recording sink and delivered to the frame sink.
C15_RecordingNeverStallsTee ==
    /\ [](tcpq # << >>
            => TcpSinkAccepts(client, Pending(client_first, client_pos, tcp_sent)))
    /\ <>[](teed = MaxFrames /\ tcp_sent = MaxFrames /\ produced = MaxFrames)

\* every frame went through although the connected client never read one
C15_Witness ==
    /\ client = "connected"
    /\ client_first # 0
    /\ client_pos = 0
    /\ Pending(client_first, client_pos, tcp_sent) >= 2
    /\ teed = MaxFrames
    /\ produced = MaxFrames

\* C16: the first buffer a client receives after it has reconnected is a
\* keyframe.
C16_ReconnectStartsAtKeyframe ==
    (connects >= 2 /\ client_first # 0) => IsKeyframe(client_first)

C18_DelTerminatesEncoder ==
    lastOp = "__del__"
        => /\ proc # "running"
           /\ signals = IF spawns = 0 THEN << >>
                        ELSE IF ignores_term THEN << "SIGTERM", "SIGKILL" >>
                             ELSE << "SIGTERM" >>

\* a half-built instance (no receiver pipeline) whose encoder ignored SIGTERM
C18_Witness ==
    /\ lastOp = "__del__"
    /\ raised = "AttributeError"
    /\ pipeline_receiver = "absent"
    /\ proc = "exited"
    /\ signals = << "SIGTERM", "SIGKILL" >>

\* C19: two instances never both hold a constructed graph on the same
\* device: the construction of the second one fails.
C19_SecondInstanceConflicts ==
    \A i, j \in Instances :
        (i # j /\ inst[i].phase = "built" /\ inst[j].phase = "built")
            => inst[i].cam_path # inst[j].cam_path

\* C20: the lifecycle starts in Constructed and every step changes it as the
\* state machine says: start() takes Constructed or Paused to Playing,
\* pause() takes Playing to Paused, stop() and a fault message take any
\* state to Stopped, and nothing else changes it.
C20_LifecycleStateMachine ==
    /\ Lifecycle = "Constructed"
    /\ [][ LET from == Lifecycle
               to == Lifecycle'
           IN  IF lastOp' = "start"
               THEN to = IF from \in { "Constructed", "Paused" } THEN "Playing" ELSE from
               ELSE IF lastOp' = "pause"
               THEN to = IF from = "Playing" THEN "Paused" ELSE from
               ELSE IF lastOp' = "stop"
                       \/ (lastOp' = "_on_bus_message" /\ last_msg' \in Faults)
               THEN to = "Stopped"
               ELSE to = from ]_vars

\* C21: after any sequence of start(), pause() and stop() calls the sender
\* pipeline and the receiver pipeline are in the same state.
C21_PipelinesDrivenTogether == pipeline_sender = pipeline_receiver

\* both pipelines paused after frames were streamed
C21_Witness ==
    /\ lastOp = "pause"
    /\ produced >= 1
    /\ pipeline_sender = "PAUSED"
    /\ pipeline_receiver = "PAUSED"

\* C22: a /camera/frame request whose camera.read() returned no frame is
\* answered 503 without an image, after at most the ten warm-up reads and
\* the one read of the handler.
C22_SnapshotUnavailable ==
    (lastOp = "get_camera_frame" /\ frame_read = "None")
        => /\ resp_status = 503
           /\ ~resp_image
           /\ used_quality = 0
           /\ reads <= warmup_reads + 1

\* a new reader whose ten warm-up reads and whose handler read all came back
\* empty
C22_Witness ==
    /\ lastOp = "get_camera_frame"
    /\ frame_read = "None"
    /\ reads = warmup_reads + 1
    /\ resp_status = 503

\* C23: a stream whose reader could not be created, or whose camera yields
\* no frame, has been answered with 503 and not with an open stream.
C23_StreamUnavailable ==
    (stream = "aborted"
        \/ (lastOp = "stream_read" /\ frame_read = "None" /\ parts = 0))
        => stream_status = 503

\* C24: the quality used by either endpoint is the requested quality when it
\* lies in 1..100, 1 when it is below and 100 when it is above.
C24_QualityClamped ==
    /\ used_quality # 0
          => used_quality = IF req_quality < 1 THEN 1
                            ELSE IF req_quality > 100 THEN 100
                                 ELSE req_quality
    /\ stream_quality # 0
          => stream_quality = IF stream_req_quality < 1 THEN 1
                              ELSE IF stream_req_quality > 100 THEN 100
                                   ELSE stream_req_quality

\* a snapshot encoded with an over-range request while a stream requested
\* with an under-range quality is open
C24_Witness ==
    /\ resp_status = 200
    /\ req_quality = 100 + MaxOver
    /\ used_quality = 100
    /\ stream = "open"
    /\ stream_req_quality = 1 - MaxOver
    /\ stream_quality = 1

\* C25: the fps the generator runs at is a finite number in [1, 30], it is
\* the nearest bound for a finite request outside that range, the period is
\* finite and positive, and n parts take at least (n - 1) / 30 seconds.
C25_FpsClamped ==
    stream # "none"
        => /\ stream_fps.k = "num"
           /\ stream_fps.v >= 10
           /\ stream_fps.v <= 300
           /\ req_fps.k = "num"
                 => stream_fps.v = IF req_fps.v < 10 THEN 10
                                   ELSE IF req_fps.v > 300 THEN 300
                                        ELSE req_fps.v
           /\ Period(stream_fps).k = "num"
           /\ Period(stream_fps).num > 0
           /\ Period(stream_fps).den > 0
           /\ parts <= sleeps + 1
           /\ (parts - 1) * Period(stream_fps).den <= 30 * Period(stream_fps).num * sleeps

\* a stream requested above 30 fps that has yielded parts between sleeps
C25_Witness ==
    /\ req_fps = Num(300 + MaxOver)
    /\ stream_fps = Num(300)
    /\ parts = MaxParts
    /\ sleeps = MaxParts - 1

\* C26: the status response says whether the capture path is reachable and
\* whether the graph is running, the latter being true exactly when the
\* sender pipeline is PLAYING.
C26_StatusReportsRunning ==
    lastOp = "get_camera_status"
        => /\ "available" \in DOMAIN status_response
           /\ "running" \in DOMAIN status_response
           /\ status_response.running = IsRunning

\* C27: whatever the size of the pulled buffer, a frame handed to the caller
\* has exactly width * height * 3 bytes.
C27_FrameHasResolutionSize ==
    rframe.k = "array" => rframe.len = Resolution[1] * Resolution[2] * 3

\* a buffer one byte short was pulled and no frame came out of it
C27_Witness ==
    /\ lastOp = "read_frame"
    /\ rframe.k = "ValueError"

\* C28: a frame held by a caller keeps the contents it was returned with,
\* whatever the producer writes afterwards.
C28_FrameIsCopy ==
    rframe.k = "array" => FrameContents(rframe, live) = rsnap

\* the producer has overwritten the memory the held frame was read from
C28_Witness ==
    /\ lastOp = "producer_write"
    /\ rframe.k = "array"
    /\ live # rsnap

\* C29: an instance built for a device the resolver matched on the imx708
\* marker has the rpicam graph (one encoder process, no in-graph encoder)
\* and the wireless camera specs, with or without a V4L2 path.
C29_Imx708AlwaysRpicam ==
    (phase = "built" /\ resolved.cam_name = "imx708")
        => /\ cam_path = "imx708"
           /\ camera_specs = "ReachyMiniWirelessCamSpecs"
           /\ video_links = RpicamLinks
           /\ spawns = 1

C31_BlackFrameWhenUnavailable ==
    [][ (track_next' = track_next + 1
            /\ (phase' # "built" \/ rframe'.k = "none"))
        => video_frame' = [ k |-> "VideoFrame", black |-> TRUE,
                            width |-> 1280, height |-> 720,
                            pts |-> track_next ] ]_vars

\* a second recv() after stop() has emptied the pipeline
C31_Witness ==
    /\ lastOp = "recv"
    /\ stopped
    /\ rframe.k = "none"
    /\ video_frame.k = "VideoFrame"
    /\ video_frame.black
    /\ video_frame.pts >= 1

\* C32: whenever the latency dump runs, also after pause() or stop(), it
\* changes neither the state of either pipeline, nor the contents of the
\* frame sink, nor the subprocess handle or the process
C32_LatencyDumpIsAdvisory ==
    [][ timers' < timers
        => UNCHANGED << pipeline_sender, pipeline_receiver, appsink, sinkq,
                        rpicam_proc, proc, signals, watch_sender,
                        watch_receiver >> ]_vars

\* a dump armed by start() runs after stop() has returned
C32_Witness ==
    /\ lastOp = "_dump_latency"
    /\ stopped
    /\ pipeline_sender = "NULL"
    /\ pipeline_receiver = "NULL"

\* C33: when start() or pause() runs concurrently with stop() on different
\* threads, then once every call has returned the two pipelines are in the
\* same lifecycle state
C33_ConcurrentCallsAgree ==
    ( /\ \A t \in 1..NumThreads : call[t].pc = "idle"
      /\ \E t, u \in 1..NumThreads :
            /\ call[t].op = "stop"
            /\ call[u].op \in { "start", "pause" } )
    => pipeline_sender = pipeline_receiver

\* C34: a message is handled only by a watch that is still attached; the
\* handler keeps the watch on a message that is no fault and detaches it on
\* end-of-stream or error, and the watch of the other bus stays as it was
C34_FaultDetachesOneWatch ==
    [][ lastOp' = "_on_bus_message"
        => /\ last_bus' = "sender"
              => /\ watch_sender
                 /\ watch_sender' = (last_msg' \notin Faults)
                 /\ watch_receiver' = watch_receiver
           /\ last_bus' = "receiver"
              => /\ watch_receiver
                 /\ watch_receiver' = (last_msg' \notin Faults)
                 /\ watch_sender' = watch_sender ]_vars

\* a fault on the sender bus has detached its watch; the receiver's is kept
C34_Witness ==
    /\ lastOp = "_on_bus_message"
    /\ last_bus = "sender"
    /\ last_msg \in Faults
    /\ ~watch_sender
    /\ watch_receiver

\* C35 as stated: a call of _cleanup_rpicam (made by stop() or __del__())
\* leaves no running process; when it had to terminate the process the
\* handle is None afterwards; with no process spawned or the process already
\* gone it sends no signal (the signals recorded are those stop() starts
\* afresh and __del__() adds to) and changes nothing; and stop() followed by
\* __del__() sends the process at most one signal in all
C35_CleanupSignalsAtMostOnce ==
    [][ lastOp' \in { "stop", "__del__" }
        => /\ proc' # "running"
           /\ (rpicam_proc # "None" /\ proc = "running")
                 => rpicam_proc' = "None"
           /\ (rpicam_proc = "None" \/ proc # "running")
                 => /\ signals' = IF lastOp' = "stop" THEN << >> ELSE signals
                    /\ rpicam_proc' = rpicam_proc
                    /\ proc' = proc
           /\ (lastOp = "stop" /\ lastOp' = "__del__")
                 => /\ Len(signals) <= 1
                    /\ signals' = signals ]_vars

\* C35 amended: as above, but of stop() followed by __del__() only the first
\* call signals the process (SIGTERM, then SIGKILL when the process has not
\* exited within the wait); the second call sends nothing
C35_OnlyFirstCleanupSignals ==
    [][ lastOp' \in { "stop", "__del__" }
        => /\ proc' # "running"
           /\ (rpicam_proc # "None" /\ proc = "running")
                 => rpicam_proc' = "None"
           /\ (rpicam_proc = "None" \/ proc # "running")
                 => /\ signals' = IF lastOp' = "stop" THEN << >> ELSE signals
                    /\ rpicam_proc' = rpicam_proc
                    /\ proc' = proc
           /\ (lastOp = "stop" /\ lastOp' = "__del__")
                 => signals' = signals ]_vars

\* __del__() after a stop() that terminated the encoder
C35_Witness ==
    /\ lastOp = "__del__"
    /\ stopped
    /\ spawns = 1
    /\ rpicam_proc = "None"
    /\ proc = "exited"
    /\ signals = << "SIGTERM" >>

\* C36: however the threads inside _get_camera interleave, at most one
\* GStreamerCamera is created, and every call that has returned a reader
\* returned the one stored in app state
C36_CameraReaderIsSingleton ==
    /\ cameras <= 1
    /\ \A t \in 1..NumThreads :
          getcam[t].pc = "returned"
              => /\ camera_reader = "GStreamerCamera"
                 /\ getcam[t].ret = camera_reader

\* one thread is creating the reader while another waits for the lock
C36_Witness ==
    \E t, u \in 1..NumThreads :
        /\ getcam[t].pc = "warmup"
        /\ getcam[u].pc = "lock"
        /\ camera_lock = t
        /\ cameras = 1

\* C37: a call that finds the daemon socket missing raises 503 without
\* creating a reader, leaves app state as it was and releases the lock; a
\* call that holds the lock with the socket present and no reader stored
\* creates the reader; and the reader is stored after at most warmup_reads
\* warm-up reads whether or not one of them gave a frame
C37_MissingSocketThenWarmup ==
    [][ \A t \in 1..NumThreads :
          /\ (getcam[t].pc = "lock" /\ getcam'[t].pc = "raised")
                => /\ ~socket_exists
                   /\ getcam'[t].ret = "503"
                   /\ camera_reader = "None"
                   /\ camera_reader' = "None"
                   /\ cameras' = cameras
                   /\ camera_lock' = 0
          /\ (/\ getcam[t].pc = "lock"
              /\ getcam'[t].pc # "lock"
              /\ socket_exists
              /\ camera_reader = "None")
                => /\ getcam'[t].pc = "warmup"
                   /\ cameras' = cameras + 1
          /\ (getcam[t].pc = "warmup" /\ getcam'[t].pc = "returned")
                => /\ camera_reader' = "GStreamerCamera"
                   /\ getcam'[t].ret = "GStreamerCamera"
                   /\ getcam'[t].reads <= warmup_reads
                   /\ camera_lock' = 0
      ]_vars

\* one call was refused with 503 and another created the reader after
\* warmup_reads reads that gave no frame
C37_Witness ==
    \E t, u \in 1..NumThreads :
        /\ getcam[t].pc = "raised"
        /\ getcam[t].ret = "503"
        /\ getcam[u].pc = "returned"
        /\ getcam[u].reads = warmup_reads
        /\ ~getcam[u].warm
        /\ camera_reader = "GStreamerCamera"
        /\ camera_lock = 0

\* C38: whenever webrtc_offer raises after it created the connection, that
\* connection is closed and is not in peer_connections when the call ends
C38_FailedOfferLeavesNothing ==
    [][ \A i \in PeerIds :
          (pcs[i].state = "unborn" /\ pcs'[i].offer \in { "KeyError", "rejected" })
              => /\ pcs'[i].is_closed
                 /\ i \notin peer_connections'
      ]_vars

\* C39: a pass of the MJPEG loop yields a part only when a frame was read
\* and encoded, the part being the boundary line, the Content-Type:
\* image/jpeg header and the JPEG payload; a pass without a frame yields
\* nothing; a pass is followed by the sleep before the next pass; and only
\* the client's closing ends the generator once the loop runs
C39_PartPerEncodedFrame ==
    [][ /\ lastOp' = "stream_read"
            => /\ yielded'.part # << >>
                    => /\ frame_read' = "frame"
                       /\ yielded'.ret
                       /\ Len(yielded'.part) >= 3
                       /\ SubSeq(yielded'.part, 1, 3)
                             = << "--frame\r\n",
                                  "Content-Type: image/jpeg\r\n\r\n", "jpeg" >>
               /\ frame_read' = "None" => yielded'.part = << >>
               /\ parts' # parts => yielded'.part # << >>
               /\ stream' = "sleeping"
        /\ (stream' = "reading" /\ stream # "reading")
              => stream \in { "open", "sleeping" }
        /\ (stream = "sleeping" /\ stream' = "reading") => sleeps' = sleeps + 1
        /\ (stream \in { "reading", "sleeping" }
              /\ stream' \notin { "reading", "sleeping" })
              => lastOp' = "stream_close"
      ]_vars

\* the loop has yielded a part, slept, and then made a pass whose frame
\* failed to encode
C39_Witness ==
    /\ lastOp = "stream_read"
    /\ parts > 0
    /\ sleeps > 0
    /\ frame_read = "frame"
    /\ ~yielded.ret
    /\ yielded.part = << >>

\* C40: whichever return _get_video_device takes (a match with a V4L2
\* path, an imx708 match without a path, no match) the DeviceMonitor it
\* started has been stopped, and nothing else of the instance has changed
C40_MonitorStoppedOnEveryReturn ==
    [][ lastOp' = "_get_video_device"
           => /\ monitor' = "stopped"
              /\ resolved' = GetVideoDevice(devices)
              /\ UNCHANGED << envVars, builtVars, flowVars, inst, extVars,
                              instanceVars, readerVars, sinkq, produced,
                              lastRead, last_msg, playing_fault, stopped >>
      ]_vars

\* the resolver has returned an imx708 device that has no V4L2 path
C40_Witness ==
    /\ lastOp = "_get_video_device"
    /\ monitor = "stopped"
    /\ resolved.found
    /\ resolved.cam_name = "imx708"
    /\ resolved.cam_path = "imx708"
    /\ phase = "none"

====
